---- MODULE Spec2Model ----
(***************************************************************************)
(* Model of the session management subsystem of bluescreen10/httpx:        *)
(* Session (session.go), SessionManager with its Handler middleware, Load, *)
(* Save and writeCookie, and the sessionResponseWriter wrapper             *)
(* (session_manager.go), running against a Store (store.go) that behaves   *)
(* like Memstore and may fail.                                             *)
(*                                                                         *)
(* A behaviour is one request, from its arrival to the end of the           *)
(* middleware.  The downstream handler is an arbitrary sequence of at most *)
(* MaxOps steps, each a Session operation, a Write / WriteHeader on the    *)
(* wrapper, or a direct call of the exported SessionManager.Save.          *)
(* Everything the manager does to its collaborators (Store, Codec,         *)
(* underlying ResponseWriter) is appended to log, the record of the calls  *)
(* of the request, in the order the code makes them.                       *)
(*                                                                         *)
(* Spec is that single request.  Four further specifications use the same  *)
(* operators: SpecSequence (whole requests one after the other, with time  *)
(* passing), SpecConcurrent (two requests at once over one Store),         *)
(* SpecComposed (the Handlers of two managers nested, and Get) and         *)
(* SpecFresh (the identifiers genUUIDv7 makes for new sessions).           *)
(***************************************************************************)
EXTENDS Integers, Sequences, FiniteSets, TLC

\* ------------------------------------------------------------------ bounds
MaxOps == 3          \* steps of the downstream handler in one request
MaxObjects == 4      \* *Session objects allocated for a composed request
MaxIssued == 2       \* sessions created for requests that bring no cookie
MaxRequests == 2     \* requests served one after the other

Ids == {"a", "b"}            \* session tokens (cookie values and generated ids)
Keys == {"k1", "k2"}         \* keys of the value map
Vals == {1, 2}               \* values stored under a key
Codes == {404}               \* status codes a handler passes to WriteHeader

\* ------------------------------------------------------------------ time
\* Times are whole seconds counted from the zero time.Time.
ZeroTime == 0                     \* time.Time{}
UnixEpoch == 1000                 \* time.Unix(0, 0) on this scale
UnixOne == UnixEpoch + 1          \* time.Unix(1, 0)
DefaultLifetime == 24 * 60 * 60   \* 24 * time.Hour
ClockStart == UnixEpoch + 2 * DefaultLifetime   \* time.Now() at the request
IdleTimeouts == {0, 10 * 60}      \* disabled, or 10 * time.Minute
\* Lifetimes SetLifetime is called with: the default, and one that puts the
\* deadline of a session stored earlier a second before the request.
Lifetimes == {DefaultLifetime, DefaultLifetime - 61}
\* Age of a stored session: new, older than the idle timeout, expired.
Ages == {0, DefaultLifetime - 60, DefaultLifetime + 1}

VARIABLES
    now,            \* time.Now()
    lifetime,       \* SessionManager.lifetime
    idleTimeout,    \* SessionManager.idleTimeout
    persisted,      \* SessionManager.cookie.Persisted
    store,          \* the Store: token -> record
    pc,             \* where the current request is
    ops,            \* steps the downstream handler has taken
    token,          \* value of the session cookie of the request ("" if none)
    sess,           \* the *Session attached to the request
    isWritten,      \* sessionResponseWriter.isWritten
    resp,           \* the underlying http.ResponseWriter
    log,            \* calls made for this request, in order
    chain,          \* the managers whose Handler wraps the handler, outermost first
    ctx,            \* r.Context(): the values attached, innermost last
    heap,           \* the *Session objects allocated, by address
    mine,           \* per manager, the session its Handler loaded and attached
    got,            \* per manager, what its Get(r) returned last
    issued,         \* the ids genUUIDv7 made, with the clock and random bytes
    past,           \* the requests served so far, one record each
    reqs,           \* two requests in flight at once, each with its session
    order,          \* the requests whose Store.Set has run, in that order
    written,        \* per token, the record of the last Set no Delete followed
    answer,         \* what the last Memstore call returned
    calls,          \* the Memstore.Get calls in flight, one per goroutine
    cleaner,        \* the goroutine running Memstore.PeriodicCleanUp
    typed,          \* a Session whose values carry their dynamic type
    trip,           \* the last Encode and the Decode of its payload
    read,           \* what the accessors returned last
    mu,             \* LiveReload.mu
    subscribers,    \* LiveReload.subscribers
    conns,          \* the handleClientConn calls, one per connection
    reloads,        \* the LiveReload.Reload calls, one per caller
    currentKey,     \* session: var currentKey contextKey
    keyMu,          \* session: var mu sync.Mutex, the goroutine holding it
    mngrs           \* the NewManager calls, one per goroutine

vars == <<now, lifetime, idleTimeout, persisted, store, pc,
          ops, token, sess, isWritten, resp, log,
          chain, ctx, heap, mine, got, issued, past, reqs, order,
          written, answer, calls, cleaner, typed, trip, read,
          mu, subscribers, conns, reloads, currentKey, keyMu, mngrs>>

config == <<lifetime, idleTimeout, persisted>>

\* The request context of composed managers.
context == <<chain, ctx, heap, mine, got>>

\* What the steps of a single manager's request leave alone.
\* The requests in flight at once.
inflight == <<reqs, order>>

\* The Memstore on its own.
memstore == <<written, answer, calls, cleaner>>

\* A session's values with their types, and the codec.
accessors == <<typed, trip, read>>

\* The LiveReload middleware.
livereload == <<mu, subscribers, conns, reloads>>

\* The context keys of the counter-based session.Manager.
keys == <<currentKey, keyMu, mngrs>>

aside == <<memstore, accessors, livereload, keys>>

others == <<context, issued, past, inflight, aside>>

\* What the steps outside the session manager's requests leave alone.
manager == <<config, pc, ops, token, sess, isWritten, resp, log,
             context, issued, past, inflight>>

\* ------------------------------------------------------------- genUUIDv7
\* A uint64 is its eight bytes, most significant first (as
\* binary.BigEndian.PutUint64 lays them out); a byte is a number in 0..255.

\* time.Now().UnixMilli() of two consecutive milliseconds.
Stamps ==
    {<<0, 0, 1, 154, 66, 17, 32, 0>>, <<0, 0, 1, 154, 66, 17, 32, 1>>}

\* What rand.Read(uuid[6:]) may deliver: ten bytes, for uuid[6] to uuid[15].
Rands ==
    {<<b6, 0, b8, 0, 0, 0, 0, 0, 0, b15>> :
        b6 \in {0, 16, 1}, b8 \in {0, 128, 1, 2}, b15 \in {0, 255}}

\* uint64(now) << 16: the two top bytes fall off, two zero bytes come in.
Shl16(v) == <<v[3], v[4], v[5], v[6], v[7], v[8], 0, 0>>

\* b | 0x80
Or80(b) == IF b < 128 THEN b + 128 ELSE b

HexDigits ==
    <<"0", "1", "2", "3", "4", "5", "6", "7",
      "8", "9", "a", "b", "c", "d", "e", "f">>

\* hex.Encode of one byte
HexByte(b) == HexDigits[(b \div 16) + 1] \o HexDigits[(b % 16) + 1]

\* Variant in which the timestamp is not written into the identifier.
UUIDBytes_NoStamp(ms, rnd) ==
    LET filled == [i \in 0..15 |-> IF i >= 6 THEN rnd[i - 5] ELSE 0]
    IN [filled EXCEPT ![6] = (@ % 16) + 112,
                      ![8] = Or80((@ * 63) % 256)]

\* genUUIDv7, the sixteen bytes: the timestamp, the random bytes over
\* uuid[6:], the version nibble and the variant byte as the code computes it.
UUIDBytes(ms, rnd) ==
    LET stamp == Shl16(ms)
        stamped == [i \in 0..15 |-> IF i < 8 THEN stamp[i + 1] ELSE 0]
        filled == [i \in 0..15 |-> IF i >= 6 THEN rnd[i - 5] ELSE stamped[i]]
    IN [filled EXCEPT ![6] = (@ % 16) + 112,
                      ![8] = Or80((@ * 63) % 256)]

\* genUUIDv7, the string: hex digits in groups of 8-4-4-4-12.
genUUIDv7(ms, rnd) ==
    LET u == UUIDBytes(ms, rnd)
        h(i) == HexByte(u[i])
    IN h(0) \o h(1) \o h(2) \o h(3) \o "-" \o h(4) \o h(5) \o "-" \o
       h(6) \o h(7) \o "-" \o h(8) \o h(9) \o "-" \o
       h(10) \o h(11) \o h(12) \o h(13) \o h(14) \o h(15)

\* --------------------------------------------------------------- Session
EmptyValues == [k \in {} |-> 0]

NoSession ==
    [id |-> "", createdAt |-> ZeroTime, values |-> EmptyValues,
     isDestroyed |-> FALSE, isModified |-> FALSE]

\* newSession: id from genUUIDv7 (timestamp and random bytes: any id),
\* createdAt from time.Now(), empty values, both flags false.
newSession(id, t) ==
    [id |-> id, createdAt |-> t, values |-> EmptyValues,
     isDestroyed |-> FALSE, isModified |-> FALSE]

SessionClear(s) ==
    [s EXCEPT !.isModified = TRUE, !.values = EmptyValues]

SessionDestroy(s) ==
    [SessionClear(s) EXCEPT !.isModified = TRUE, !.isDestroyed = TRUE]

\* Variant of Set in which setting a value revives a destroyed session.
SessionSet_Revives(s, k, v) ==
    [s EXCEPT !.isModified = TRUE, !.isDestroyed = FALSE,
              !.values = [x \in DOMAIN s.values \cup {k} |->
                            IF x = k THEN v ELSE s.values[x]]]

SessionSet(s, k, v) ==
    [s EXCEPT !.isModified = TRUE,
              !.values = [x \in DOMAIN s.values \cup {k} |->
                            IF x = k THEN v ELSE s.values[x]]]

\* Variant of SetWeak that marks the session as modified, as Set does.
SessionSetWeak_Marks(s, k, v) ==
    [s EXCEPT !.isModified = TRUE,
              !.values = [x \in DOMAIN s.values \cup {k} |->
                            IF x = k THEN v ELSE s.values[x]]]

SessionSetWeak(s, k, v) ==
    [s EXCEPT !.values = [x \in DOMAIN s.values \cup {k} |->
                            IF x = k THEN v ELSE s.values[x]]]

SessionDelete(s, k) ==
    [s EXCEPT !.isModified = TRUE,
              !.values = [x \in DOMAIN s.values \ {k} |-> s.values[x]]]

\* Session.Get: nil (modelled as 0) when the key is absent.
SessionGet(s, k) == IF k \in DOMAIN s.values THEN s.values[k] ELSE 0

\* A value of type any: its dynamic type and the value. The numbers stand
\* for themselves in each numeric type.
Dyn(type, val) == [type |-> type, val |-> val]

\* The values the handler of the tests stores, and a zero value.
TypedVals ==
    {Dyn("int", 1), Dyn("uint", 2), Dyn("float32", 3), Dyn("float64", 4),
     Dyn("string", "hello"), Dyn("bool", TRUE), Dyn("int", 0),
     Dyn("bool", FALSE)}

\* The maps a session can hold over the keys.
ValueMaps == UNION {[D -> TypedVals] : D \in SUBSET Keys}

\* v, _ := s.values[key].(T); return v
CommaOk(s, k, type, zero) ==
    IF k \in DOMAIN s.values /\ s.values[k].type = type
    THEN s.values[k].val
    ELSE zero

\* Variant of GetInt that converts from the other numeric types.
SessionGetInt_Converts(s, k) ==
    IF k \in DOMAIN s.values
       /\ s.values[k].type \in {"int", "uint", "float32", "float64"}
    THEN s.values[k].val
    ELSE 0

SessionGetInt(s, k) == CommaOk(s, k, "int", 0)

SessionGetUint(s, k) == CommaOk(s, k, "uint", 0)

SessionGetBool(s, k) == CommaOk(s, k, "bool", FALSE)

SessionGetFloat32(s, k) == CommaOk(s, k, "float32", 0)

SessionGetFloat64(s, k) == CommaOk(s, k, "float64", 0)

SessionGetString(s, k) == CommaOk(s, k, "string", "")

\* ----------------------------------------------------------------- Codec
\* Variant of Encode that leaves the creation time out of the payload.
Encode_NoCreatedAt(createdAt, values) ==
    [fmt |-> "gob", createdAt |-> ZeroTime,
     pairs |-> {<<k, values[k]>> : k \in DOMAIN values}]

\* The payload keeps the creation time and the key/value pairs; gob sends a
\* value of type any with the name of its dynamic type.
Encode(createdAt, values) ==
    [fmt |-> "gob", createdAt |-> createdAt,
     pairs |-> {<<k, values[k]>> : k \in DOMAIN values}]

Corrupt == [fmt |-> "bad", createdAt |-> ZeroTime, pairs |-> {}]

Decode(data) ==
    IF data.fmt = "gob"
    THEN [err |-> FALSE, createdAt |-> data.createdAt,
          values |-> [k \in {p[1] : p \in data.pairs} |->
                        (CHOOSE p \in data.pairs : p[1] = k)[2]]]
    ELSE [err |-> TRUE, createdAt |-> ZeroTime, values |-> EmptyValues]

\* ----------------------------------------------------------------- Store
NoRecord == [present |-> FALSE, data |-> Corrupt, expiresAt |-> ZeroTime]

Record(data, expiresAt) ==
    [present |-> TRUE, data |-> data, expiresAt |-> expiresAt]

\* Variant of Get that hands back a record whatever its expiresAt.
StoreGet_KeepsExpired(st, tok, t) ==
    IF ~st[tok].present
    THEN [store |-> st, found |-> FALSE, data |-> Corrupt]
    ELSE [store |-> st, found |-> TRUE, data |-> st[tok].data]

\* Memstore.Get: absent -> not found; expired -> deleted and not found.
StoreGet(st, tok, t) ==
    IF ~st[tok].present
    THEN [store |-> st, found |-> FALSE, data |-> Corrupt]
    ELSE IF t > st[tok].expiresAt
    THEN [store |-> [st EXCEPT ![tok] = NoRecord], found |-> FALSE,
          data |-> Corrupt]
    ELSE [store |-> st, found |-> TRUE, data |-> st[tok].data]

\* Variant of Set that leaves a record that exists as it is.
StoreSet_KeepsExisting(st, tok, data, expiresAt) ==
    IF st[tok].present THEN st
    ELSE [st EXCEPT ![tok] = Record(data, expiresAt)]

StoreSet(st, tok, data, expiresAt) ==
    [st EXCEPT ![tok] = Record(data, expiresAt)]

\* Variant of Delete that empties the whole map.
StoreDelete_Wipes(st, tok) == [id \in DOMAIN st |-> NoRecord]

StoreDelete(st, tok) == [st EXCEPT ![tok] = NoRecord]

\* ------------------------------------------------------------------- log
Ev(ev, n, arg, id) == [ev |-> ev, n |-> n, arg |-> arg, id |-> id]

Indices(lg, ev) == {i \in 1..Len(lg) : lg[i].ev = ev}

NumSaves(lg) == Cardinality(Indices(lg, "Save"))

\* ---------------------------------------------- underlying ResponseWriter
NewResponse ==
    [vary |-> FALSE, cookies |-> <<>>, status |-> 0, sent |-> <<>>,
     body |-> 0]

\* WriteHeader on the underlying writer: the first call fixes the status and
\* sends the header map as it is then; later calls are ignored.
UnderWriteHeader(w, code) ==
    IF w.status # 0 THEN w
    ELSE [w EXCEPT !.status = code, !.sent = w.cookies]

\* Write on the underlying writer: an implicit WriteHeader(200) first.
UnderWrite(w) ==
    [UnderWriteHeader(w, 200) EXCEPT !.body = @ + 1]

\* ---------------------------------------------------------- SessionManager
\* Variant of the cookie in which Persisted is looked at before the zero
\* expiresAt, so the destroy path of a session cookie sets no MaxAge.
Cookie_PersistedFirst(tok, expiresAt) ==
    IF ~persisted
    THEN [value |-> tok, expires |-> ZeroTime, maxAge |-> 0]
    ELSE IF expiresAt = ZeroTime
    THEN [value |-> tok, expires |-> UnixOne, maxAge |-> -1]
    ELSE [value |-> tok, expires |-> expiresAt + 1,
          maxAge |-> (expiresAt - now) + 1]

\* Variant in which Expires is the deadline itself, the second not added.
Cookie_NoRounding(tok, expiresAt) ==
    IF expiresAt = ZeroTime
    THEN [value |-> tok, expires |-> UnixOne, maxAge |-> -1]
    ELSE IF persisted
    THEN [value |-> tok, expires |-> expiresAt,
          maxAge |-> (expiresAt - now) + 1]
    ELSE [value |-> tok, expires |-> ZeroTime, maxAge |-> 0]

\* The cookie writeCookie builds: the destroy path (zero expiresAt) expires
\* it, a persisted cookie carries Expires and MaxAge, otherwise only the value.
Cookie(tok, expiresAt) ==
    IF expiresAt = ZeroTime
    THEN [value |-> tok, expires |-> UnixOne, maxAge |-> -1]
    ELSE IF persisted
    THEN [value |-> tok, expires |-> expiresAt + 1,
          maxAge |-> (expiresAt - now) + 1]
    ELSE [value |-> tok, expires |-> ZeroTime, maxAge |-> 0]

\* writeCookie: http.SetCookie adds one Set-Cookie value to the header map.
writeCookie(c, n, tok, expiresAt) ==
    [c EXCEPT !.resp.cookies = Append(@, Cookie(tok, expiresAt)),
              !.log = Append(@, Ev("SetCookie", n, ToString(expiresAt), tok))]

Call(c, ev, n, arg, id) == [c EXCEPT !.log = Append(@, Ev(ev, n, arg, id))]

\* Variant in which the cookie is expired although Store.Delete failed.
OnDeleteError_Cookie(c, n) ==
    Call(writeCookie(Call(c, "StoreDelete", n, "err", c.sess.id),
                     n, c.sess.id, ZeroTime),
         "SaveRet", n, "err", c.sess.id)

\* Variant in which a failing Store.Delete is answered with a 500 reply.
OnDeleteError_Replies(c, n) ==
    LET c1 == Call(Call(c, "StoreDelete", n, "err", c.sess.id),
                   "SaveRet", n, "err", c.sess.id)
    IN [c1 EXCEPT !.resp = UnderWrite(UnderWriteHeader(c1.resp, 500))]

\* Save, Store.Delete returned an error: the error is returned.
OnDeleteError(c, n) ==
    Call(Call(c, "StoreDelete", n, "err", c.sess.id),
         "SaveRet", n, "err", c.sess.id)

\* Save of a destroyed session: Store.Delete, then the expiring cookie.
SaveDestroyed(c, n, outcome) ==
    LET id == c.sess.id IN
    IF outcome = "deleteErr"
    THEN OnDeleteError(c, n)
    ELSE LET c1 == [Call(c, "StoreDelete", n, "ok", id)
                       EXCEPT !.store = StoreDelete(c.store, id)]
         IN Call(writeCookie(c1, n, id, ZeroTime), "SaveRet", n, "ok", id)

\* Variant in which an idle timeout always replaces the absolute deadline.
CookieExpiry_IdleAlways(expiresAt) ==
    IF idleTimeout > 0 THEN now + idleTimeout ELSE expiresAt

\* The expiry of the cookie: the idle expiry when it is the earlier one.
CookieExpiry(expiresAt) ==
    IF idleTimeout > 0 /\ now + idleTimeout < expiresAt
    THEN now + idleTimeout
    ELSE expiresAt

\* Save, the end: the idle timeout, writeCookie, return nil.
SaveCookie(c, n, expiresAt) ==
    Call(writeCookie(c, n, c.sess.id, CookieExpiry(expiresAt)),
         "SaveRet", n, "ok", c.sess.id)

\* Variant in which the error of Codec.Encode is dropped: Save stores the
\* (empty) payload, writes the cookie and returns nil.
OnEncodeError_Ignored(c, n) ==
    SaveCookie([Call(Call(c, "Encode", n, "err", c.sess.id),
                     "StoreSet", n, "ok", c.sess.id) EXCEPT
                  !.store = StoreSet(c.store, c.sess.id, Corrupt,
                                     c.sess.createdAt + lifetime)],
               n, c.sess.createdAt + lifetime)

\* Save, Codec.Encode returned an error: the error is returned.
OnEncodeError(c, n) ==
    Call(Call(c, "Encode", n, "err", c.sess.id),
         "SaveRet", n, "err", c.sess.id)

\* Variant in which the error of Store.Set is dropped: Save goes on to the
\* cookie and returns nil.
OnSetError_Ignored(c, n) ==
    SaveCookie(Call(c, "StoreSet", n, "err", c.sess.id), n,
               c.sess.createdAt + lifetime)

\* Save, Store.Set returned an error: the error is returned.
OnSetError(c, n) ==
    Call(Call(c, "StoreSet", n, "err", c.sess.id),
         "SaveRet", n, "err", c.sess.id)

\* Variant of Save that encodes and stores the session whether or not it
\* was modified.
SaveLive_Always(c, n, outcome) ==
    LET s == c.sess
        expiresAt == s.createdAt + lifetime
        c1 == [c EXCEPT !.sess.isModified = FALSE]
    IN IF outcome = "encodeErr" THEN OnEncodeError(c1, n)
       ELSE LET c2 == Call(c1, "Encode", n, "ok", s.id) IN
            IF outcome = "setErr" THEN OnSetError(c2, n)
            ELSE SaveCookie(
                   [Call(c2, "StoreSet", n, "ok", s.id) EXCEPT
                      !.store = StoreSet(c2.store, s.id,
                          Encode(s.createdAt, s.values), expiresAt)],
                   n, expiresAt)

\* Variant of Save in which the deadline slides: it is counted from the
\* time of the Save, not from the creation of the session.
SaveLive_Sliding(c, n, outcome) ==
    LET s == c.sess
        expiresAt == now + lifetime
    IN IF ~s.isModified THEN SaveCookie(c, n, expiresAt)
       ELSE LET c1 == [c EXCEPT !.sess.isModified = FALSE] IN
            IF outcome = "encodeErr" THEN OnEncodeError(c1, n)
            ELSE LET c2 == Call(c1, "Encode", n, "ok", s.id) IN
                 IF outcome = "setErr" THEN OnSetError(c2, n)
                 ELSE SaveCookie(
                        [Call(c2, "StoreSet", n, "ok", s.id) EXCEPT
                           !.store = StoreSet(c2.store, s.id,
                               Encode(s.createdAt, s.values), expiresAt)],
                        n, expiresAt)

\* Variant of Save in which the Store record, like the cookie, expires at
\* the idle expiry when that is the earlier one.
SaveLive_IdleRecord(c, n, outcome) ==
    LET s == c.sess
        expiresAt == s.createdAt + lifetime
    IN IF ~s.isModified THEN SaveCookie(c, n, expiresAt)
       ELSE LET c1 == [c EXCEPT !.sess.isModified = FALSE] IN
            IF outcome = "encodeErr" THEN OnEncodeError(c1, n)
            ELSE LET c2 == Call(c1, "Encode", n, "ok", s.id) IN
                 IF outcome = "setErr" THEN OnSetError(c2, n)
                 ELSE SaveCookie(
                        [Call(c2, "StoreSet", n, "ok", s.id) EXCEPT
                           !.store = StoreSet(c2.store, s.id,
                               Encode(s.createdAt, s.values),
                               CookieExpiry(expiresAt))],
                        n, expiresAt)

\* Save of a session that is not destroyed.
SaveLive(c, n, outcome) ==
    LET s == c.sess
        expiresAt == s.createdAt + lifetime
    IN IF ~s.isModified THEN SaveCookie(c, n, expiresAt)
       ELSE LET c1 == [c EXCEPT !.sess.isModified = FALSE] IN
            IF outcome = "encodeErr" THEN OnEncodeError(c1, n)
            ELSE LET c2 == Call(c1, "Encode", n, "ok", s.id) IN
                 IF outcome = "setErr" THEN OnSetError(c2, n)
                 ELSE SaveCookie(
                        [Call(c2, "StoreSet", n, "ok", s.id) EXCEPT
                           !.store = StoreSet(c2.store, s.id,
                               Encode(s.createdAt, s.values), expiresAt)],
                        n, expiresAt)

\* Variant of Save in which isModified is cleared on entry, before the
\* destroyed session is looked at.
Save_ClearsFirst(c, by, outcome) ==
    LET n == NumSaves(c.log) + 1
        c0 == [Call(c, "Save", n, by, c.sess.id) EXCEPT !.sess.isModified = FALSE]
    IN IF c.sess.isDestroyed
       THEN SaveDestroyed(c0, n, outcome)
       ELSE SaveLive(c0, n, outcome)

\* SessionManager.Save(w, sess), called from `by`; outcome names the
\* collaborator call that fails, if it is made.
Save(c, by, outcome) ==
    LET n == NumSaves(c.log) + 1
        c0 == Call(c, "Save", n, by, c.sess.id)
    IN IF c.sess.isDestroyed
       THEN SaveDestroyed(c0, n, outcome)
       ELSE SaveLive(c0, n, outcome)

\* Variant in which a failing Store.Get is taken for "not found".
OnGetError_Fresh(st, tok, id, t) ==
    [err |-> FALSE, sess |-> newSession(id, t), store |-> st,
     log |-> <<Ev("StoreGet", 0, "err", tok)>>]

\* Load, Store.Get returned an error: no session, the error.
OnGetError(st, tok, id, t) ==
    [err |-> TRUE, sess |-> NoSession, store |-> st,
     log |-> <<Ev("StoreGet", 0, "err", tok)>>]

\* Variant in which an undecodable payload is taken for "not found".
OnDecodeError_Fresh(st, tok, id, t) ==
    [err |-> FALSE, sess |-> newSession(id, t), store |-> st,
     log |-> <<Ev("StoreGet", 0, "ok", tok), Ev("Decode", 0, "err", tok)>>]

\* Load, Codec.Decode returned an error: no session, the error.
OnDecodeError(st, tok, id, t) ==
    [err |-> TRUE, sess |-> NoSession, store |-> st,
     log |-> <<Ev("StoreGet", 0, "ok", tok), Ev("Decode", 0, "err", tok)>>]

\* Variant in which the empty token is looked up in the Store like any other.
OnEmptyToken_Lookup(st, id, t) ==
    [err |-> FALSE, sess |-> newSession(id, t), store |-> st,
     log |-> <<Ev("StoreGet", 0, "notfound", ""),
               Ev("newSession", 0, "", id)>>]

\* Load, the token is empty: a new session, no Store call.
OnEmptyToken(st, id, t) ==
    [err |-> FALSE, sess |-> newSession(id, t), store |-> st,
     log |-> <<Ev("newSession", 0, "", id)>>]

\* Variant in which the session made for an unknown token keeps that token
\* as its id.
OnNotFound_KeepsToken(st, tok, id, t) ==
    [err |-> FALSE, sess |-> newSession(tok, t), store |-> st,
     log |-> <<Ev("StoreGet", 0, "notfound", tok),
               Ev("newSession", 0, "", id)>>]

\* Load, the Store reports the token not found: a new session.
OnNotFound(st, tok, id, t) ==
    [err |-> FALSE, sess |-> newSession(id, t), store |-> st,
     log |-> <<Ev("StoreGet", 0, "notfound", tok),
               Ev("newSession", 0, "", id)>>]

\* Variant in which the session loaded starts without its stored values.
OnFound_NoValues(st, tok, d) ==
    [err |-> FALSE,
     sess |-> [id |-> tok, createdAt |-> d.createdAt,
               values |-> EmptyValues, isDestroyed |-> FALSE,
               isModified |-> FALSE],
     store |-> st,
     log |-> <<Ev("StoreGet", 0, "ok", tok), Ev("Decode", 0, "ok", tok)>>]

\* Variant in which the session loaded is left without an id.
OnFound_Anonymous(st, tok, d) ==
    [err |-> FALSE,
     sess |-> [id |-> "", createdAt |-> d.createdAt,
               values |-> d.values, isDestroyed |-> FALSE,
               isModified |-> FALSE],
     store |-> st,
     log |-> <<Ev("StoreGet", 0, "ok", tok), Ev("Decode", 0, "ok", tok)>>]

\* Load, the payload found was decoded into d: the session with the token
\* as id and the stored creation time and values.
OnFound(st, tok, d) ==
    [err |-> FALSE,
     sess |-> [id |-> tok, createdAt |-> d.createdAt,
               values |-> d.values, isDestroyed |-> FALSE,
               isModified |-> FALSE],
     store |-> st,
     log |-> <<Ev("StoreGet", 0, "ok", tok), Ev("Decode", 0, "ok", tok)>>]

\* SessionManager.Load(token): the session, or an error.
Load(st, tok, outcome, id, t) ==
    IF tok = ""
    THEN OnEmptyToken(st, id, t)
    ELSE IF outcome = "getErr" THEN OnGetError(st, tok, id, t)
    ELSE LET g == StoreGet(st, tok, t) IN
         IF ~g.found
         THEN OnNotFound(g.store, tok, id, t)
         ELSE LET d == Decode(g.data) IN
              IF d.err THEN OnDecodeError(g.store, tok, id, t)
              ELSE OnFound(g.store, tok, d)

\* http.Error(w, msg, 500) on the underlying writer.
HttpError(c) ==
    [c EXCEPT !.resp = UnderWrite(UnderWriteHeader(c.resp, 500)),
              !.log = @ \o <<Ev("WriteHeader", 0, "500", ""),
                             Ev("Write", 0, "", "")>>]

\* The Handler middleware up to the call of next.ServeHTTP: the Vary header,
\* the cookie, Load, and either the 500 reply or the wrapper and the call.
HandlerEnter(st, tok, outcome, id, t) ==
    LET ld == Load(st, tok, outcome, id, t)
        c == [sess |-> ld.sess, store |-> ld.store,
              resp |-> [NewResponse EXCEPT !.vary = TRUE],
              log |-> ld.log, isWritten |-> FALSE, pc |-> "handler"]
    IN IF ld.err
       THEN [HttpError(c) EXCEPT !.pc = "aborted"]
       ELSE Call(c, "Next", 0, "", ld.sess.id)

\* Variant of Write that never sets isWritten.
WrapperWrite_NoFlag(c, outcome) ==
    LET c1 == IF ~c.isWritten THEN Save(c, "Write", outcome) ELSE c
    IN [Call(c1, "Write", 0, "", "") EXCEPT !.resp = UnderWrite(c1.resp)]

\* sessionResponseWriter.Write
WrapperWrite(c, outcome) ==
    LET c1 == IF ~c.isWritten
              THEN Save([c EXCEPT !.isWritten = TRUE], "Write", outcome)
              ELSE c
    IN [Call(c1, "Write", 0, "", "") EXCEPT !.resp = UnderWrite(c1.resp)]

\* Variant of WriteHeader that delegates first and saves afterwards.
WrapperWriteHeader_WriteFirst(c, code, outcome) ==
    LET c1 == [Call(c, "WriteHeader", 0, ToString(code), "")
                  EXCEPT !.resp = UnderWriteHeader(c.resp, code)]
    IN IF ~c.isWritten
       THEN Save([c1 EXCEPT !.isWritten = TRUE], "WriteHeader", outcome)
       ELSE c1

\* sessionResponseWriter.WriteHeader
WrapperWriteHeader(c, code, outcome) ==
    LET c1 == IF ~c.isWritten
              THEN Save([c EXCEPT !.isWritten = TRUE], "WriteHeader", outcome)
              ELSE c
    IN [Call(c1, "WriteHeader", 0, ToString(code), "")
           EXCEPT !.resp = UnderWriteHeader(c1.resp, code)]

\* Variant of the end of the middleware that saves again when the session
\* was changed after the first write.
HandlerLeave_SavesChanges(c, outcome) ==
    LET c1 == IF ~c.isWritten \/ c.sess.isModified
              THEN Save(c, "Handler", outcome) ELSE c
    IN [c1 EXCEPT !.resp = UnderWriteHeader(c1.resp, 200), !.pc = "done"]

\* The Handler middleware after next.ServeHTTP has returned; the server then
\* completes the response (an implicit WriteHeader(200) if none was sent).
HandlerLeave(c, outcome) ==
    LET c1 == IF ~c.isWritten THEN Save(c, "Handler", outcome) ELSE c
    IN [c1 EXCEPT !.resp = UnderWriteHeader(c1.resp, 200), !.pc = "done"]

\* ------------------------------------------------------- request context
\* Two managers, each made by NewSessionManager.
Managers == {"m1", "m2"}

\* The ways of composing their Handler middlewares around one handler.
Chains == {<<>>, <<"m1">>, <<"m2">>, <<"m1", "m2">>, <<"m2", "m1">>}

\* The nil *struct{}: the zero value of the field key.
NilKey == "(*struct{})(nil)"

\* SessionManager.key: NewSessionManager does not set it, so it is the zero
\* value in every manager.
KeyOf(m) == NilKey

\* A nil *Session (no object).
NilSession == 0

\* context.WithValue(parent, key, val)
WithValue(parent, key, val) == Append(parent, [key |-> key, val |-> val])

\* Context.Value(key): the value attached last under an equal key, or nil.
Value(c, key) ==
    LET found == {i \in 1..Len(c) : c[i].key = key}
    IN IF found = {} THEN NilSession
       ELSE c[CHOOSE i \in found : \A j \in found : j <= i].val

\* ------------------------------------------------------ requests at once
Requests == {"r1", "r2"}

\* A request that has not arrived.
NoRequest ==
    [pc |-> "new", token |-> "", sess |-> NoSession, loaded |-> EmptyValues,
     found |-> FALSE, seen |-> 0, key |-> ""]

\* -------------------------------------------------------------- Memstore
MaxTicks == 2

\* The clock moves an hour at a time; a caller of Set asks for an expiry an
\* hour ago or an hour ahead, as the tests do.
Hour == 60 * 60

Offsets == {-Hour, Hour}

Payloads ==
    {Encode(ClockStart, EmptyValues), Encode(ClockStart, [k \in {"k1"} |-> 1])}

\* What a call returned: Set and Delete return a nil error only.
Returned(op, tok, found, data) ==
    <<[op |-> op, tok |-> tok, found |-> found, data |-> data, err |-> FALSE]>>

\* The goroutines that call Memstore.Get.
Getters == {"g1", "g2"}

\* A goroutine that is not inside Get.
NoCall == [pc |-> "idle", tok |-> ""]

\* PeriodicCleanUp has not been started.
NoCleaner == [pc |-> "off", todo |-> {}, key |-> "", stop |-> FALSE]

\* ------------------------------------------------------------ LiveReload
\* The client connections on the SSE endpoint.
Conns == {"c1", "c2"}

\* The goroutines that call Reload.
Reloaders == {"w1", "w2"}

\* No request on the SSE endpoint yet.
NoConn == [pc |-> "none", events |-> 0, cancelled |-> FALSE, got |-> {}]

\* Not inside Reload.
NoReload == [pc |-> "idle", i |-> 0, snap |-> {}]

\* sendReload(w): one more "data: ts=" message on the connection.
sendReload(cn) == [cn EXCEPT !.events = @ + 1]

\* Variant of the receive in which the value sent by Reload is lost.
Receive_Lost(cn, r) == cn

\* handleClientConn, case <-reloadCh: the value Reload r sent is taken.
Receive(cn, r) == [cn EXCEPT !.pc = "second", !.got = @ \cup {r}]

\* Variant of unsubscribe that leaves the list as it is.
Without_Keeps(subs, c) == subs

\* The slice without the channel of connection c (the first match).
Without(subs, c) == SelectSeq(subs, LAMBDA x : x # c)

\* ------------------------------------------------------- session.Manager
\* The goroutines that call NewManager.
Makers == {"n1", "n2", "n3"}

\* NewManager has not been called; new(Manager) has key 0.
NoManager == [pc |-> "idle", key |-> 0]

\* Variant of the mutex that is never held.
Held_Never(m) == FALSE

\* sync.Mutex: the mutex is held by some goroutine.
Held(m) == m # ""

\* ------------------------------------------------------------------ state
Cur ==
    [sess |-> sess, store |-> store, resp |-> resp, log |-> log,
     isWritten |-> isWritten, pc |-> pc]

Becomes(c) ==
    /\ sess' = c.sess
    /\ store' = c.store
    /\ resp' = c.resp
    /\ log' = c.log
    /\ isWritten' = c.isWritten
    /\ pc' = c.pc

Outcomes == {"ok", "getErr", "encodeErr", "setErr", "deleteErr"}

\* What the Store may hold when the request arrives: nothing, or under "a" a
\* session saved by an earlier request and under "b" a payload the codec
\* cannot decode.
Earlier(age) ==
    Record(Encode(ClockStart - age, [k \in {"k1"} |-> 1]),
           ClockStart - age + DefaultLifetime)

InitStores ==
    {[id \in Ids |-> NoRecord]} \cup
    {[id \in Ids |-> IF id = "a" THEN Earlier(age)
                     ELSE Record(Corrupt, ClockStart + DefaultLifetime)] :
        age \in Ages}

\* NewSessionManager(store): the default configuration, no request yet.
Init ==
    /\ now = ClockStart
    /\ lifetime = DefaultLifetime
    /\ idleTimeout = 0
    /\ persisted = TRUE
    /\ store \in InitStores
    /\ pc = "idle"
    /\ ops = 0
    /\ token = ""
    /\ sess = NoSession
    /\ isWritten = FALSE
    /\ resp = NewResponse
    /\ log = <<>>
    /\ chain = <<>>
    /\ ctx = <<>>
    /\ heap = <<>>
    /\ mine = [m \in Managers |-> NilSession]
    /\ got = [m \in Managers |-> NilSession]
    /\ issued = <<>>
    /\ past = <<>>
    /\ reqs = [r \in Requests |-> NoRequest]
    /\ order = <<>>
    /\ written = [id \in Ids |-> NoRecord]
    /\ answer = <<>>
    /\ calls = [g \in Getters |-> NoCall]
    /\ cleaner = NoCleaner
    /\ typed = NoSession
    /\ trip = <<>>
    /\ read = <<>>
    /\ mu = [readers |-> {}, waiting |-> {}]
    /\ subscribers = <<>>
    /\ conns = [c \in Conns |-> NoConn]
    /\ reloads = [r \in Reloaders |-> NoReload]
    /\ currentKey = 0
    /\ keyMu = ""
    /\ mngrs = [n \in Makers |-> NoManager]

\* ---------------------------------------------------------------- actions
SetIdleTimeout(t) ==
    /\ pc = "idle"
    /\ idleTimeout' = t
    /\ UNCHANGED <<now, lifetime, persisted, store, pc, ops,
                   token, sess, isWritten, resp, log, others>>

SetLifetime(l) ==
    /\ pc = "idle"
    /\ lifetime' = l
    /\ UNCHANGED <<now, idleTimeout, persisted, store, pc, ops,
                   token, sess, isWritten, resp, log, others>>

SetCookieConfig(p) ==
    /\ pc = "idle"
    /\ persisted' = p
    /\ UNCHANGED <<now, lifetime, idleTimeout, store, pc,
                   ops, token, sess, isWritten, resp, log, others>>

\* A request arrives at the middleware with cookie value tok ("" if none).
ServeHTTP(tok, outcome, id) ==
    /\ pc = "idle"
    /\ ops' = 0
    /\ token' = tok
    /\ Becomes(HandlerEnter(store, tok, outcome, id, now))
    /\ UNCHANGED <<now, config, others>>

\* A handler that no Handler middleware wraps calls Get(r): the context
\* holds no session and Get returns a new one.
GetOutside(id) ==
    /\ pc = "idle"
    /\ pc' = "outside"
    /\ sess' = newSession(id, now)
    /\ log' = <<Ev("newSession", 0, "", id)>>
    /\ UNCHANGED <<now, config, store, ops, token, isWritten, resp, others>>

\* One step of the downstream handler, which leaves the request as c.
Step(c) ==
    /\ ops < MaxOps
    /\ ops' = ops + 1
    /\ Becomes(c)
    /\ UNCHANGED <<now, config, token, others>>

DoSet(k, v) ==
    /\ pc = "handler"
    /\ Step([Cur EXCEPT !.sess = SessionSet(sess, k, v)])

DoSetWeak(k, v) ==
    /\ pc = "handler"
    /\ Step([Cur EXCEPT !.sess = SessionSetWeak(sess, k, v)])

DoDelete(k) ==
    /\ pc = "handler"
    /\ Step([Cur EXCEPT !.sess = SessionDelete(sess, k)])

DoClear ==
    /\ pc = "handler"
    /\ Step([Cur EXCEPT !.sess = SessionClear(sess)])

DoDestroy ==
    /\ pc = "handler"
    /\ Step([Cur EXCEPT !.sess = SessionDestroy(sess)])

DoWrite(outcome) ==
    /\ pc = "handler"
    /\ Step(WrapperWrite(Cur, outcome))

DoWriteHeader(code, outcome) ==
    /\ pc = "handler"
    /\ Step(WrapperWriteHeader(Cur, code, outcome))

\* The handler calls the exported SessionManager.Save itself.
DoSave(outcome) ==
    /\ pc = "handler"
    /\ Step(Save(Cur, "direct", outcome))

\* The downstream handler returns.
Return(outcome) ==
    /\ pc = "handler"
    /\ Becomes(HandlerLeave(Cur, outcome))
    /\ UNCHANGED <<now, config, ops, token, others>>

\* The downstream handler panics: the middleware is unwound, nothing runs.
Panic ==
    /\ pc = "handler"
    /\ pc' = "panicked"
    /\ UNCHANGED <<now, config, store, ops, token, sess,
                   isWritten, resp, log, others>>

Next ==
    \/ \E t \in IdleTimeouts : SetIdleTimeout(t)
    \/ \E l \in Lifetimes : SetLifetime(l)
    \/ \E p \in BOOLEAN : SetCookieConfig(p)
    \/ \E tok \in Ids \cup {""}, o \in {"ok", "getErr"}, id \in Ids :
          ServeHTTP(tok, o, id)
    \/ \E id \in Ids : GetOutside(id)
    \/ \E k \in Keys, v \in Vals : DoSet(k, v)
    \/ \E k \in Keys, v \in Vals : DoSetWeak(k, v)
    \/ \E k \in Keys : DoDelete(k)
    \/ DoClear
    \/ DoDestroy
    \/ \E o \in Outcomes : DoWrite(o)
    \/ \E code \in Codes, o \in Outcomes : DoWriteHeader(code, o)
    \/ \E o \in Outcomes : DoSave(o)
    \/ \E o \in Outcomes : Return(o)
    \/ Panic

Spec == Init /\ [][Next]_vars

\* ------------------------------------------------------ composed managers
\* A request through the Handlers of several managers, and what each
\* manager's Get(r) returns inside the innermost handler.

\* The application wraps its handler in the Handlers of the managers of ms.
Route(ms) ==
    /\ pc = "idle"
    /\ chain' = ms
    /\ pc' = "routed"
    /\ UNCHANGED <<now, config, store, ops, token, sess, isWritten, resp, log,
                   ctx, heap, mine, got, issued, past, inflight,
                   aside>>

\* The Handler of the next manager of the chain, up to its call of
\* next.ServeHTTP: Load, then the session attached under the manager's key.
Enter(tok, id) ==
    /\ pc = "routed"
    /\ Len(ctx) < Len(chain)
    /\ LET m == chain[Len(ctx) + 1]
           ld == Load(store, tok, "ok", id, now)
       IN /\ store' = ld.store
          /\ IF ld.err
             THEN /\ pc' = "aborted"
                  /\ UNCHANGED <<ctx, heap, mine>>
             ELSE /\ pc' = pc
                  /\ heap' = Append(heap, ld.sess)
                  /\ ctx' = WithValue(ctx, KeyOf(m), Len(heap) + 1)
                  /\ mine' = [mine EXCEPT ![m] = Len(heap) + 1]
    /\ UNCHANGED <<now, config, ops, token, sess, isWritten, resp, log,
                   chain, got, issued, past, inflight,
                   aside>>

\* SessionManager.Get(r) of manager m, called by the innermost handler.
Get(m) ==
    /\ pc = "routed"
    /\ Len(ctx) = Len(chain)
    /\ LET v == Value(ctx, KeyOf(m))
       IN IF v # NilSession
          THEN /\ got' = [got EXCEPT ![m] = v]
               /\ heap' = heap
          ELSE /\ Len(heap) < MaxObjects
               /\ \E id \in Ids : heap' = Append(heap, newSession(id, now))
               /\ got' = [got EXCEPT ![m] = Len(heap) + 1]
    /\ UNCHANGED <<now, config, store, pc, ops, token, sess, isWritten, resp,
                   log, chain, ctx, mine, issued, past, inflight,
                   aside>>

\* The innermost handler sets a value in the session Get(r) of m gave it.
Touch(m) ==
    /\ pc = "routed"
    /\ got[m] # NilSession
    /\ heap' = [heap EXCEPT ![got[m]] = SessionSet(@, "k2", 2)]
    /\ UNCHANGED <<now, config, store, pc, ops, token, sess, isWritten, resp,
                   log, chain, ctx, mine, got, issued, past, inflight,
                   aside>>

NextComposed ==
    \/ \E ms \in Chains : Route(ms)
    \/ \E tok \in Ids \cup {""}, id \in Ids : Enter(tok, id)
    \/ \E m \in Managers : Get(m)
    \/ \E m \in Managers : Touch(m)

SpecComposed == Init /\ [][NextComposed]_vars

\* ------------------------------------------------------- fresh identifiers
\* A request without a session cookie arrives in millisecond ms: Load makes
\* a session with newSession, whose id genUUIDv7 builds from the clock and
\* the random bytes rnd.
Fresh(ms, rnd) ==
    /\ Len(issued) < MaxIssued
    /\ issued' = Append(issued, [ms |-> ms, rnd |-> rnd,
                                 id |-> genUUIDv7(ms, rnd)])
    /\ UNCHANGED <<now, config, store, pc, ops, token, sess, isWritten, resp,
                   log, context, past, inflight,
                   aside>>

NextFresh == \E ms \in Stamps, rnd \in Rands : Fresh(ms, rnd)

SpecFresh == Init /\ [][NextFresh]_vars

\* ------------------------------------------------------ requests at once
\* Two requests served at the same time by one manager over one Store, each
\* in its own goroutine with its own *Session: the Handler up to the call of
\* the handler, the handler setting a value, the handler returning and the
\* Save that follows. The calls of the Store are the steps that interleave.

\* Request r arrives with cookie value tok: Load.
Arrive(r, tok, id) ==
    /\ reqs[r].pc = "new"
    /\ LET c == HandlerEnter(store, tok, "ok", id, now)
       IN /\ store' = c.store
          /\ reqs' = [reqs EXCEPT ![r] =
                 [pc |-> c.pc, token |-> tok, sess |-> c.sess,
                  loaded |-> c.sess.values,
                  found |-> \E i \in Indices(c.log, "Decode") :
                               c.log[i].arg = "ok",
                  seen |-> Len(order), key |-> ""]]
    /\ UNCHANGED <<now, config, pc, ops, token, sess, isWritten, resp, log,
                   context, issued, past, order,
                   aside>>

\* The handler of request r sets a value in its session.
Assign(r, k, v) ==
    /\ reqs[r].pc = "handler"
    /\ reqs[r].key = ""
    /\ reqs' = [reqs EXCEPT ![r].sess = SessionSet(@, k, v), ![r].key = k]
    /\ UNCHANGED <<now, config, store, pc, ops, token, sess, isWritten, resp,
                   log, context, issued, past, order,
                   aside>>

\* The handler of request r destroys its session.
Destroy(r) ==
    /\ reqs[r].pc = "handler"
    /\ ~reqs[r].sess.isDestroyed
    /\ reqs' = [reqs EXCEPT ![r].sess = SessionDestroy(@)]
    /\ UNCHANGED <<now, config, store, pc, ops, token, sess, isWritten, resp,
                   log, context, issued, past, order,
                   aside>>

\* The handler of request r returns without a write: the middleware saves.
Finish(r, outcome) ==
    /\ reqs[r].pc = "handler"
    /\ LET c == HandlerLeave(
                   [sess |-> reqs[r].sess, store |-> store,
                    resp |-> NewResponse, log |-> <<>>,
                    isWritten |-> FALSE, pc |-> "handler"], outcome)
       IN /\ store' = c.store
          /\ reqs' = [reqs EXCEPT ![r].sess = c.sess, ![r].pc = "done"]
          /\ order' = IF \E i \in Indices(c.log, "StoreSet") :
                            c.log[i].arg = "ok"
                      THEN Append(order, r) ELSE order
    /\ UNCHANGED <<now, config, pc, ops, token, sess, isWritten, resp, log,
                   context, issued, past,
                   aside>>

NextConcurrent ==
    \/ \E r \in Requests, tok \in Ids \cup {""}, id \in Ids : Arrive(r, tok, id)
    \/ \E r \in Requests, k \in Keys, v \in Vals : Assign(r, k, v)
    \/ \E r \in Requests : Destroy(r)
    \/ \E r \in Requests, o \in {"ok", "setErr"} : Finish(r, o)

SpecConcurrent == Init /\ [][NextConcurrent]_vars

\* --------------------------------------------------- requests in sequence
\* Requests served one after the other by one manager over one Store, each
\* from its arrival to the end of the middleware, with time passing between.

\* What a handler does before it returns: Session operations and writes.
Programs ==
    {<<>>,
     <<[op |-> "Set", key |-> "k1", val |-> 2]>>,
     <<[op |-> "Set", key |-> "k2", val |-> 1],
       [op |-> "Write", key |-> "", val |-> 0],
       [op |-> "Set", key |-> "k1", val |-> 1]>>,
     <<[op |-> "Destroy", key |-> "", val |-> 0]>>,
     <<[op |-> "SetWeak", key |-> "k2", val |-> 2]>>,
     <<[op |-> "SetWeak", key |-> "k2", val |-> 2],
       [op |-> "Set", key |-> "k1", val |-> 1]>>}

\* Time from one request to the next: more than half a lifetime, so that a
\* session is past its deadline when the third request after it arrives.
Delays == {(DefaultLifetime \div 2) + 1}

\* One operation of the handler.
Do(c, o, outcome) ==
    IF o.op = "Set" THEN [c EXCEPT !.sess = SessionSet(c.sess, o.key, o.val)]
    ELSE IF o.op = "SetWeak"
    THEN [c EXCEPT !.sess = SessionSetWeak(c.sess, o.key, o.val)]
    ELSE IF o.op = "Destroy" THEN [c EXCEPT !.sess = SessionDestroy(c.sess)]
    ELSE WrapperWrite(c, outcome)

RECURSIVE Run(_, _, _)
Run(c, prog, outcome) ==
    IF prog = <<>> THEN c
    ELSE Run(Do(c, Head(prog), outcome), Tail(prog), outcome)

\* The operations of a handler that come before its first write, that is
\* before the Save of the request.
RECURSIVE UntilWrite(_)
UntilWrite(prog) ==
    IF prog = <<>> \/ Head(prog).op = "Write" THEN <<>>
    ELSE <<Head(prog)>> \o UntilWrite(Tail(prog))

\* The record of a request: c0 when the handler is called, cs when Save is
\* called, c1 at the end of the middleware.
Entry(tok, c0, cs, c1) ==
    LET saved == \E i \in Indices(c1.log, "StoreSet") : c1.log[i].arg = "ok"
    IN [token |-> tok,
        at |-> now,
        fresh |-> Indices(c0.log, "newSession") # {},
        id |-> c0.sess.id,
        createdAt |-> c0.sess.createdAt,
        loaded |-> c0.sess.values,
        atSave |-> cs.sess.values,
        saved |-> saved,
        deleted |-> \E i \in Indices(c1.log, "StoreDelete") :
                       c1.log[i].arg = "ok",
        expiresAt |-> IF saved THEN c1.store[c0.sess.id].expiresAt
                      ELSE ZeroTime,
        cookies |-> c1.resp.cookies]

\* A whole request with cookie value tok, served at time now, and the time
\* that passes until the next one.
Request(tok, id, prog, outcome, delay) ==
    /\ pc = "idle"
    /\ Len(past) < MaxRequests
    /\ LET c0 == HandlerEnter(store, tok, "ok", id, now)
           cs == Run(c0, UntilWrite(prog), outcome)
           c1 == HandlerLeave(Run(c0, prog, outcome), outcome)
       IN /\ Becomes([c1 EXCEPT !.pc = "idle"])
          /\ past' = Append(past, Entry(tok, c0, cs, c1)
                                   @@ [prog |-> prog, idle |-> idleTimeout])
    /\ token' = tok
    /\ now' = now + delay
    /\ UNCHANGED <<config, ops, context, issued, inflight,
                   aside>>

InitSequence == Init /\ store = [id \in Ids |-> NoRecord]

\* The idle timeout is an option of NewSessionManager: it is set before the
\* first request is served.
NextSequence ==
    \/ \E t \in IdleTimeouts : Len(past) = 0 /\ SetIdleTimeout(t)
    \/ \E tok \in Ids \cup {""}, id \in Ids, prog \in Programs,
          o \in {"ok", "setErr"}, delay \in Delays :
          Request(tok, id, prog, o, delay)

SpecSequence == InitSequence /\ [][NextSequence]_vars

\* ---------------------------------------------------- Memstore, one caller
\* Calls on a Memstore made one after the other, and time passing.
MemSet(tok, data, e) ==
    /\ store' = StoreSet(store, tok, data, now + e)
    /\ written' = [written EXCEPT ![tok] = Record(data, now + e)]
    /\ answer' = Returned("Set", tok, FALSE, Corrupt)
    /\ UNCHANGED <<now, manager, keys, calls, cleaner, accessors, livereload>>

MemGet(tok) ==
    LET g == StoreGet(store, tok, now) IN
    /\ store' = g.store
    /\ answer' = Returned("Get", tok, g.found, g.data)
    /\ UNCHANGED <<now, manager, keys, written, calls, cleaner, accessors,
                   livereload>>

MemDelete(tok) ==
    /\ store' = StoreDelete(store, tok)
    /\ written' = [written EXCEPT ![tok] = NoRecord]
    /\ answer' = Returned("Delete", tok, FALSE, Corrupt)
    /\ UNCHANGED <<now, manager, keys, calls, cleaner, accessors, livereload>>

Advance ==
    /\ now + Hour <= ClockStart + (MaxTicks * Hour)
    /\ now' = now + Hour
    /\ UNCHANGED <<store, manager, aside>>

\* memstore.New(): an empty map.
InitMemstore == Init /\ store = [id \in Ids |-> NoRecord]

NextMemstore ==
    \/ \E tok \in Ids, data \in Payloads, e \in Offsets : MemSet(tok, data, e)
    \/ \E tok \in Ids : MemGet(tok)
    \/ \E tok \in Ids : MemDelete(tok)
    \/ Advance

SpecMemstore == InitMemstore /\ [][NextMemstore]_vars

\* ------------------------------------------- Memstore, several goroutines
\* Get is a Load of the map and, for a record found expired, a separate
\* Delete of the key; deleteExpired is a Range over the map that calls Delete
\* for each record it finds expired. Store and Delete of the sync.Map are
\* single steps; other goroutines run between the steps.

\* Get, up to the return or to the call of m.Delete.
GetLoad(g, tok) ==
    /\ calls[g].pc = "idle"
    /\ IF ~store[tok].present
       THEN /\ answer' = Returned("Get", tok, FALSE, Corrupt)
            /\ UNCHANGED calls
       ELSE IF now > store[tok].expiresAt
       THEN /\ calls' = [calls EXCEPT ![g] = [pc |-> "deleting", tok |-> tok]]
            /\ UNCHANGED answer
       ELSE /\ answer' = Returned("Get", tok, TRUE, store[tok].data)
            /\ UNCHANGED calls
    /\ UNCHANGED <<now, store, manager, keys, written, cleaner, accessors,
                   livereload>>

\* Get, m.Delete(token) and the return.
GetDelete(g) ==
    /\ calls[g].pc = "deleting"
    /\ store' = StoreDelete(store, calls[g].tok)
    /\ calls' = [calls EXCEPT ![g] = NoCall]
    /\ answer' = Returned("Get", calls[g].tok, FALSE, Corrupt)
    /\ UNCHANGED <<now, manager, keys, written, cleaner, accessors, livereload>>

\* go store.PeriodicCleanUp(interval, stop)
PeriodicCleanUp ==
    /\ cleaner.pc = "off"
    /\ cleaner' = [cleaner EXCEPT !.pc = "select"]
    /\ UNCHANGED <<now, store, manager, keys, written, answer, calls, accessors,
                   livereload>>

\* The select takes the tick: deleteExpired starts its Range.
CleanTick ==
    /\ cleaner.pc = "select"
    /\ cleaner' = [cleaner EXCEPT !.pc = "range", !.todo = Ids]
    /\ UNCHANGED <<now, store, manager, keys, written, answer, calls, accessors,
                   livereload>>

\* What is left of the Range once the keys in todo remain.
Ranging(c, todo) ==
    [c EXCEPT !.pc = IF todo = {} THEN "select" ELSE "range",
              !.todo = todo, !.key = ""]

\* The Range visits a key: a record found expired is to be deleted.
CleanVisit(tok) ==
    /\ cleaner.pc = "range"
    /\ tok \in cleaner.todo
    /\ cleaner' = IF store[tok].present /\ now > store[tok].expiresAt
                  THEN [cleaner EXCEPT !.pc = "deleting", !.key = tok]
                  ELSE Ranging(cleaner, cleaner.todo \ {tok})
    /\ UNCHANGED <<now, store, manager, keys, written, answer, calls, accessors,
                   livereload>>

\* deleteExpired, m.Delete(key) for the record found expired.
CleanDelete ==
    /\ cleaner.pc = "deleting"
    /\ store' = StoreDelete(store, cleaner.key)
    /\ cleaner' = Ranging(cleaner, cleaner.todo \ {cleaner.key})
    /\ UNCHANGED <<now, manager, keys, written, answer, calls, accessors,
                   livereload>>

\* The owner of the stop channel closes it or sends on it.
Stop ==
    /\ ~cleaner.stop
    /\ cleaner' = [cleaner EXCEPT !.stop = TRUE]
    /\ UNCHANGED <<now, store, manager, keys, written, answer, calls, accessors,
                   livereload>>

\* The select takes the stop channel: PeriodicCleanUp returns.
CleanReturn ==
    /\ cleaner.pc = "select"
    /\ cleaner.stop
    /\ cleaner' = [cleaner EXCEPT !.pc = "returned"]
    /\ UNCHANGED <<now, store, manager, keys, written, answer, calls, accessors,
                   livereload>>

NextMemConcurrent ==
    \/ \E tok \in Ids, data \in Payloads, e \in Offsets : MemSet(tok, data, e)
    \/ \E tok \in Ids : MemDelete(tok)
    \/ \E g \in Getters, tok \in Ids : GetLoad(g, tok)
    \/ \E g \in Getters : GetDelete(g)
    \/ Advance
    \/ PeriodicCleanUp
    \/ CleanTick
    \/ \E tok \in Ids : CleanVisit(tok)
    \/ CleanDelete
    \/ Stop
    \/ CleanReturn

SpecMemConcurrent == InitMemstore /\ [][NextMemConcurrent]_vars

\* ------------------------------------------------------- typed accessors
\* A handler that stores values of the supported types in a new session,
\* deletes keys and reads a key with every accessor.
ANew(id) ==
    /\ typed.id = ""
    /\ typed' = newSession(id, now)
    /\ UNCHANGED <<now, store, manager, keys, memstore, trip, read, livereload>>

ASet(k, v) ==
    /\ typed.id # ""
    /\ typed' = SessionSet(typed, k, v)
    /\ UNCHANGED <<now, store, manager, keys, memstore, trip, read, livereload>>

ADelete(k) ==
    /\ typed.id # ""
    /\ typed' = SessionDelete(typed, k)
    /\ UNCHANGED <<now, store, manager, keys, memstore, trip, read, livereload>>

ARead(k) ==
    /\ typed.id # ""
    /\ read' = <<[key |-> k, values |-> typed.values,
                  get |-> SessionGet(typed, k),
                  int |-> SessionGetInt(typed, k),
                  uint |-> SessionGetUint(typed, k),
                  bool |-> SessionGetBool(typed, k),
                  float32 |-> SessionGetFloat32(typed, k),
                  float64 |-> SessionGetFloat64(typed, k),
                  string |-> SessionGetString(typed, k)]>>
    /\ UNCHANGED <<now, store, manager, keys, memstore, typed, trip, livereload>>

NextAccessors ==
    \/ \E id \in Ids : ANew(id)
    \/ \E k \in Keys, v \in TypedVals : ASet(k, v)
    \/ \E k \in Keys : ADelete(k)
    \/ \E k \in Keys : ARead(k)

SpecAccessors == Init /\ [][NextAccessors]_vars

\* ------------------------------------------------------------------ codec
\* Creation times: the zero time, now, an hour ago.
CreatedAts == {ZeroTime, ClockStart, ClockStart - Hour}

\* Encode of a creation time and a map, and Decode of the payload.
RoundTrip(t, values) ==
    /\ trip' = <<[createdAt |-> t, values |-> values,
                  out |-> Decode(Encode(t, values))]>>
    /\ UNCHANGED <<now, store, manager, keys, memstore, typed, read, livereload>>

NextCodec == \E t \in CreatedAts, values \in ValueMaps : RoundTrip(t, values)

SpecCodec == Init /\ [][NextCodec]_vars

\* ------------------------------------------------------------- LiveReload
\* Each connection on the SSE endpoint runs handleClientConn in its own
\* goroutine and has its own unbuffered channel, named after it. mu is a
\* sync.RWMutex: Lock waits until no reader holds it, and RLock waits while
\* a Lock is pending. The bodies of subscribe and unsubscribe run under the
\* write lock and are one step each.

\* A client opens the SSE endpoint: handleClientConn calls subscribe, which
\* calls mu.Lock.
Connect(c) ==
    /\ conns[c].pc = "none"
    /\ conns' = [conns EXCEPT ![c].pc = "locking"]
    /\ mu' = [mu EXCEPT !.waiting = @ \cup {c}]
    /\ UNCHANGED <<now, store, manager, keys, memstore, accessors, subscribers,
                   reloads>>

\* subscribe: the channel is appended to the list.
Subscribe(c) ==
    /\ conns[c].pc = "locking"
    /\ mu.readers = {}
    /\ subscribers' = Append(subscribers, c)
    /\ mu' = [mu EXCEPT !.waiting = @ \ {c}]
    /\ conns' = [conns EXCEPT ![c].pc = "first"]
    /\ UNCHANGED <<now, store, manager, keys, memstore, accessors, reloads>>

\* The first timestamp; the handler then waits in the select.
Initial(c) ==
    /\ conns[c].pc = "first"
    /\ conns' = [conns EXCEPT ![c] = [sendReload(@) EXCEPT !.pc = "select"]]
    /\ UNCHANGED <<now, store, manager, keys, memstore, accessors, mu, subscribers,
                   reloads>>

\* The client closes the connection: r.Context() is done.
Cancel(c) ==
    /\ conns[c].pc \notin {"none", "gone"}
    /\ ~conns[c].cancelled
    /\ conns' = [conns EXCEPT ![c].cancelled = TRUE]
    /\ UNCHANGED <<now, store, manager, keys, memstore, accessors, mu, subscribers,
                   reloads>>

\* case <-r.Context().Done(): return, and the deferred unsubscribe calls
\* mu.Lock.
SelectDone(c) ==
    /\ conns[c].pc = "select"
    /\ conns[c].cancelled
    /\ conns' = [conns EXCEPT ![c].pc = "leaving"]
    /\ mu' = [mu EXCEPT !.waiting = @ \cup {c}]
    /\ UNCHANGED <<now, store, manager, keys, memstore, accessors, subscribers,
                   reloads>>

\* After case <-reloadCh: the new timestamp, then the deferred unsubscribe
\* calls mu.Lock.
Second(c) ==
    /\ conns[c].pc = "second"
    /\ conns' = [conns EXCEPT ![c] = [sendReload(@) EXCEPT !.pc = "leaving"]]
    /\ mu' = [mu EXCEPT !.waiting = @ \cup {c}]
    /\ UNCHANGED <<now, store, manager, keys, memstore, accessors, subscribers,
                   reloads>>

\* unsubscribe: the channel is removed from the list and closed.
Unsubscribe(c) ==
    /\ conns[c].pc = "leaving"
    /\ mu.readers = {}
    /\ subscribers' = Without(subscribers, c)
    /\ mu' = [mu EXCEPT !.waiting = @ \ {c}]
    /\ conns' = [conns EXCEPT ![c].pc = "gone"]
    /\ UNCHANGED <<now, store, manager, keys, memstore, accessors, reloads>>

\* Reload: mu.RLock, and the range over the subscribers starts.
ReloadStart(r) ==
    /\ reloads[r].pc = "idle"
    /\ mu.waiting = {}
    /\ mu' = [mu EXCEPT !.readers = @ \cup {r}]
    /\ reloads' = [reloads EXCEPT ![r] =
                      [pc |-> "sending", i |-> 1,
                       snap |-> {subscribers[k] : k \in 1..Len(subscribers)}]]
    /\ UNCHANGED <<now, store, manager, keys, memstore, accessors, subscribers,
                   conns>>

\* Reload, ch <- struct{}{}: the send completes when the handler of that
\* connection takes the value in its select.
ReloadSend(r) ==
    /\ reloads[r].pc = "sending"
    /\ reloads[r].i <= Len(subscribers)
    /\ LET c == subscribers[reloads[r].i] IN
       /\ conns[c].pc = "select"
       /\ conns' = [conns EXCEPT ![c] = Receive(@, r)]
    /\ reloads' = [reloads EXCEPT ![r].i = @ + 1]
    /\ UNCHANGED <<now, store, manager, keys, memstore, accessors, mu, subscribers>>

\* Reload, the range is over: the deferred mu.RUnlock, and the return.
ReloadReturn(r) ==
    /\ reloads[r].pc = "sending"
    /\ reloads[r].i > Len(subscribers)
    /\ mu' = [mu EXCEPT !.readers = @ \ {r}]
    /\ reloads' = [reloads EXCEPT ![r].pc = "idle"]
    /\ UNCHANGED <<now, store, manager, keys, memstore, accessors, subscribers,
                   conns>>

\* ------------------------------------------------- session.NewManager
\* Concurrent calls of NewManager of the counter-based variant, each in its
\* own goroutine; the steps are the statements between Lock and Unlock.

\* NewManager is called: mngr := new(Manager), and mu.Lock() is next.
NewManager(n) ==
    /\ mngrs[n].pc = "idle"
    /\ mngrs' = [mngrs EXCEPT ![n].pc = "lock"]
    /\ UNCHANGED <<now, store, manager, memstore, accessors, livereload,
                   currentKey, keyMu>>

\* mu.Lock() returns.
KeyLock(n) ==
    /\ mngrs[n].pc = "lock"
    /\ ~Held(keyMu)
    /\ keyMu' = n
    /\ mngrs' = [mngrs EXCEPT ![n].pc = "read"]
    /\ UNCHANGED <<now, store, manager, memstore, accessors, livereload,
                   currentKey>>

\* mngr.key = currentKey
KeyAssign(n) ==
    /\ mngrs[n].pc = "read"
    /\ mngrs' = [mngrs EXCEPT ![n].key = currentKey, ![n].pc = "incr"]
    /\ UNCHANGED <<now, store, manager, memstore, accessors, livereload,
                   currentKey, keyMu>>

\* currentKey++
KeyIncrement(n) ==
    /\ mngrs[n].pc = "incr"
    /\ currentKey' = currentKey + 1
    /\ mngrs' = [mngrs EXCEPT ![n].pc = "unlock"]
    /\ UNCHANGED <<now, store, manager, memstore, accessors, livereload,
                   keyMu>>

\* mu.Unlock(); the options are applied and the Manager is returned.
KeyUnlock(n) ==
    /\ mngrs[n].pc = "unlock"
    /\ keyMu' = ""
    /\ mngrs' = [mngrs EXCEPT ![n].pc = "done"]
    /\ UNCHANGED <<now, store, manager, memstore, accessors, livereload,
                   currentKey>>

NextKeys ==
    \/ \E n \in Makers : NewManager(n)
    \/ \E n \in Makers : KeyLock(n)
    \/ \E n \in Makers : KeyAssign(n)
    \/ \E n \in Makers : KeyIncrement(n)
    \/ \E n \in Makers : KeyUnlock(n)

\* The package as loaded: currentKey is 0 and no Manager exists.
InitKeys == Init /\ store = [id \in Ids |-> NoRecord]

SpecKeys == InitKeys /\ [][NextKeys]_vars

NextLiveReload ==
    \/ \E c \in Conns : Connect(c)
    \/ \E c \in Conns : Subscribe(c)
    \/ \E c \in Conns : Initial(c)
    \/ \E c \in Conns : Cancel(c)
    \/ \E c \in Conns : SelectDone(c)
    \/ \E c \in Conns : Second(c)
    \/ \E c \in Conns : Unsubscribe(c)
    \/ \E r \in Reloaders : ReloadStart(r)
    \/ \E r \in Reloaders : ReloadSend(r)
    \/ \E r \in Reloaders : ReloadReturn(r)

SpecLiveReload == Init /\ [][NextLiveReload]_vars

\* ------------------------------------------------------------ observations
Saves == Indices(log, "Save")

\* Save calls made by the wrapper or by the middleware, not by the handler.
OwnSaves == {i \in Saves : log[i].arg # "direct"}

\* Calls of Write and WriteHeader on the underlying writer.
Writes == {i \in 1..Len(log) : log[i].ev \in {"Write", "WriteHeader"}}

First(S) == CHOOSE i \in S : \A j \in S : i <= j

\* The calls made inside Save number n.
Within(n) == {i \in 1..Len(log) : log[i].n = n}

Has(n, ev, arg) == \E i \in Within(n) : log[i].ev = ev /\ log[i].arg = arg

Made(n, ev) == \E i \in Within(n) : log[i].ev = ev

\* The cookie that the SetCookie call at index i of the log added.
CookieOf(i) ==
    resp.cookies[Cardinality({j \in Indices(log, "SetCookie") : j <= i})]

Min(x, y) == IF x < y THEN x ELSE y

\* The expiry a Save of the session, not destroyed, is to give its cookie.
Deadline ==
    IF idleTimeout > 0
    THEN Min(sess.createdAt + lifetime, now + idleTimeout)
    ELSE sess.createdAt + lifetime

\* The calls log' adds to log.
Added == {i \in 1..Len(log') : i > Len(log)}

\* ------------------------------------------------------------------ claims

\* C1: when Load succeeded, the wrapper and the middleware together call Save
\* at most once while the handler runs and exactly once by the time it has
\* returned: the first Write or WriteHeader triggers it (and it is then named
\* after that call), later ones trigger none, and with no write at all the
\* middleware calls it after the handler has returned.
C1_SaveExactlyOnce ==
    pc \in {"handler", "done", "panicked"} =>
        /\ Cardinality(OwnSaves) <= 1
        /\ pc = "done" => Cardinality(OwnSaves) = 1
        /\ Writes # {} =>
              \E i \in OwnSaves : i < First(Writes)
                                  /\ log[i].arg = log[First(Writes)].ev
        /\ Writes = {} =>
              \A i \in OwnSaves : pc = "done" /\ log[i].arg = "Handler"

C1_Witness ==
    /\ pc = "done"
    /\ Saves = OwnSaves
    /\ \E i, j \in Writes : log[i].ev = "Write" /\ log[j].ev = "WriteHeader"
    /\ Cardinality(Writes) >= 3

\* C2: whenever the wrapper has delegated a Write or WriteHeader to the
\* underlying writer, it has left the Fresh state and its Save has run to its
\* end before the first such call: Save's Store call, its Set-Cookie and its
\* return all precede it, and the cookies Save wrote are among the headers sent.
C2_SaveBeforeFirstWrite ==
    (pc \in {"handler", "done", "panicked"} /\ Writes # {}) =>
        /\ isWritten
        /\ \E i \in OwnSaves :
              /\ \A j \in Within(log[i].n) : j < First(Writes)
              /\ Made(log[i].n, "SaveRet")
              /\ Has(log[i].n, "SaveRet", "ok") =>
                    (\E k \in 1..Len(resp.sent) : resp.sent[k].value = sess.id)

C2_Witness ==
    /\ pc = "handler"
    /\ Writes # {}
    /\ log[First(Writes)].ev = "WriteHeader"
    /\ \E i \in OwnSaves : Has(log[i].n, "StoreSet", "ok")
    /\ Len(resp.sent) = 1

\* C3: when Store.Get fails, the middleware answers 500, the downstream
\* handler is never called, Save is never called (no Store.Set, no
\* Store.Delete) and no Set-Cookie header is written.
C3_GetErrorAborts ==
    (\E i \in Indices(log, "StoreGet") : log[i].arg = "err") =>
        /\ pc = "aborted"
        /\ resp.status = 500
        /\ resp.cookies = <<>> /\ resp.sent = <<>>
        /\ \A i \in 1..Len(log) :
              log[i].ev \notin {"Next", "Save", "StoreSet", "StoreDelete",
                                "SetCookie"}

C3_Witness ==
    /\ pc = "aborted"
    /\ \E i \in Indices(log, "StoreGet") : log[i].arg = "err" /\ log[i].id = token
    /\ token # ""

\* C4: when the Store finds the token and Codec.Decode fails, Load returns the
\* error and no session, and the middleware answers 500 without calling the
\* downstream handler.
C4_DecodeErrorAborts ==
    (\E i \in Indices(log, "Decode") : log[i].arg = "err") =>
        /\ pc = "aborted"
        /\ sess = NoSession
        /\ resp.status = 500
        /\ \A i \in 1..Len(log) : log[i].ev \notin {"Next", "Save"}

C4_Witness ==
    /\ pc = "aborted"
    /\ \E i \in Indices(log, "StoreGet") : log[i].arg = "ok"
    /\ \E i \in Indices(log, "Decode") : log[i].arg = "err"

\* C5: a Save whose Store.Set fails returns the error and writes no cookie;
\* when it is the only Save of the request, the response carries no
\* Set-Cookie header.
C5_SetErrorNoCookie ==
    \A i \in Indices(log, "StoreSet") :
        log[i].arg = "err" =>
            /\ Has(log[i].n, "SaveRet", "err")
            /\ ~Made(log[i].n, "SetCookie")
            /\ Cardinality(Saves) = 1 =>
                  (resp.cookies = <<>> /\ resp.sent = <<>>)

C5_Witness ==
    /\ pc = "done"
    /\ Cardinality(Saves) = 1
    /\ \E i \in Indices(log, "StoreSet") : log[i].arg = "err"
    /\ Writes # {}

\* C6: a Save of a destroyed session whose Store.Delete fails returns the
\* error, writes no cookie and does not call Store.Set; when it is the only
\* Save of the request, the response carries no Set-Cookie header.
C6_DeleteErrorNoCookie ==
    \A i \in Indices(log, "StoreDelete") :
        log[i].arg = "err" =>
            /\ Has(log[i].n, "SaveRet", "err")
            /\ ~Made(log[i].n, "SetCookie")
            /\ ~Made(log[i].n, "StoreSet")
            /\ Cardinality(Saves) = 1 =>
                  (resp.cookies = <<>> /\ resp.sent = <<>>)

C6_Witness ==
    /\ pc = "done"
    /\ sess.isDestroyed
    /\ Cardinality(Saves) = 1
    /\ \E i \in Indices(log, "StoreDelete") : log[i].arg = "err"

\* C7: when the handler has destroyed the session and returned without any
\* write (and without calling Save itself), and Store.Delete succeeds, then
\* Store.Delete was called exactly once, with the id of the session, and the
\* response carries exactly one cookie: value the id, MaxAge -1, Expires in
\* the past.
C7_DestroyWithoutWrite ==
    (/\ pc = "done"
     /\ sess.isDestroyed
     /\ Writes = {}
     /\ Saves = OwnSaves
     /\ \A i \in Indices(log, "StoreDelete") : log[i].arg = "ok") =>
        /\ Cardinality(Indices(log, "StoreDelete")) = 1
        /\ \A i \in Indices(log, "StoreDelete") : log[i].id = sess.id
        /\ Indices(log, "StoreSet") = {}
        /\ ~store[sess.id].present
        /\ Len(resp.cookies) = 1
        /\ resp.cookies[1].value = sess.id
        /\ resp.cookies[1].maxAge = -1
        /\ resp.cookies[1].expires < now
        /\ resp.cookies[1].expires # ZeroTime
        /\ resp.sent = resp.cookies

C7_Witness ==
    /\ pc = "done"
    /\ sess.isDestroyed
    /\ Writes = {}
    /\ Saves = OwnSaves
    /\ ~persisted
    /\ \E i \in Indices(log, "Decode") : log[i].arg = "ok"
    /\ Indices(log, "StoreDelete") # {}
    /\ \A i \in Indices(log, "StoreDelete") : log[i].arg = "ok"

\* C8: once the session is destroyed, whatever the handler then does
\* (Set, SetWeak, Delete, Clear, writes, Save), it stays destroyed, and every
\* Save run from then on calls Store.Delete and neither Codec.Encode nor
\* Store.Set.
C8_DestroyPrecedence ==
    [][(pc = "handler" /\ sess.isDestroyed) =>
          /\ sess'.isDestroyed
          /\ \A i \in Added :
                /\ log'[i].ev \notin {"StoreSet", "Encode"}
                /\ log'[i].ev = "Save" =>
                      \E j \in Added : /\ log'[j].ev = "StoreDelete"
                                       /\ log'[j].n = log'[i].n
                                       /\ log'[j].id = sess.id]_vars

C8_Witness ==
    /\ pc = "done"
    /\ sess.isDestroyed
    /\ sess.values # EmptyValues
    /\ Writes = {}
    /\ Cardinality(Saves) = 1
    /\ \E i \in Indices(log, "StoreDelete") : log[i].arg = "ok"

\* C9 (as claimed): a modified session stays modified until a Save has
\* succeeded in Store.Set: isModified goes from true to false only in a step
\* in which Store.Set returned no error.
C9_ModifiedUntilSaved ==
    [][(pc = "handler" /\ sess.isModified /\ ~sess'.isModified) =>
          \E i \in Added : log'[i].ev = "StoreSet" /\ log'[i].arg = "ok"]_vars

\* C10: in every state a destroyed session is a modified one, also after any
\* number of Saves; and the step that destroys a session leaves it destroyed,
\* modified and with no value under any key.
C10_DestroyedImpliesModified ==
    /\ [](sess.isDestroyed => sess.isModified)
    /\ [][(~sess.isDestroyed /\ sess'.isDestroyed) =>
             /\ sess'.isModified
             /\ sess'.values = EmptyValues
             /\ \A k \in Keys : SessionGet(sess', k) = 0]_vars

C10_Witness ==
    /\ sess.isDestroyed
    /\ sess.isModified
    /\ Cardinality(Saves) >= 2
    /\ \E i \in Indices(log, "Decode") : log[i].arg = "ok"

\* C11: Load with an empty token calls no Store operation (nor the codec) and
\* returns a session with a non-empty id, no values and both flags false; the
\* contents of the Store are what they were, and the handler is called.
C11_EmptyTokenNoStore ==
    [][(pc = "idle" /\ pc' \in {"handler", "aborted"} /\ token' = "") =>
          /\ store' = store
          /\ \A i \in Added :
                log'[i].ev \notin {"StoreGet", "StoreSet", "StoreDelete",
                                   "Decode", "Encode"}
          /\ sess'.id # ""
          /\ sess'.values = EmptyValues
          /\ \A k \in Keys : SessionGet(sess', k) = 0
          /\ ~sess'.isModified
          /\ ~sess'.isDestroyed
          /\ pc' = "handler"]_vars

C11_Witness ==
    /\ pc = "handler"
    /\ ops = 0
    /\ token = ""
    /\ \E id \in Ids : store[id].present
    /\ sess.values = EmptyValues

C19_CookieRule ==
    \A i \in Indices(log, "SetCookie") :
        /\ CookieOf(i).value = sess.id
        /\ IF Made(log[i].n, "StoreDelete")
           THEN /\ CookieOf(i).maxAge = -1
                /\ CookieOf(i).expires # ZeroTime
                /\ CookieOf(i).expires < now
           ELSE IF ~persisted
           THEN /\ CookieOf(i).expires = ZeroTime
                /\ CookieOf(i).maxAge = 0
           ELSE /\ CookieOf(i).expires = Deadline + 1
                /\ CookieOf(i).maxAge # 0

\* C19 (amended): as above, except that with Persisted true the cookie has
\* Expires = deadline plus one second and its MaxAge field is the number of
\* seconds to the deadline plus one, which is 0 (no Max-Age attribute) when
\* the deadline lies a second in the past.
C19_CookieRuleAmended ==
    \A i \in Indices(log, "SetCookie") :
        /\ CookieOf(i).value = sess.id
        /\ CookieOf(i).value \in Ids
        /\ IF Made(log[i].n, "StoreDelete")
           THEN /\ CookieOf(i).maxAge = -1
                /\ CookieOf(i).expires # ZeroTime
                /\ CookieOf(i).expires < now
           ELSE IF ~persisted
           THEN /\ CookieOf(i).expires = ZeroTime
                /\ CookieOf(i).maxAge = 0
           ELSE /\ CookieOf(i).expires = Deadline + 1
                /\ CookieOf(i).maxAge = (Deadline - now) + 1
                /\ CookieOf(i).maxAge = 0 <=> Deadline = now - 1

C19_Witness ==
    /\ pc = "done"
    /\ persisted
    /\ Len(resp.cookies) = 2
    /\ resp.cookies[1].maxAge > 1
    /\ resp.cookies[1].expires = sess.createdAt + lifetime + 1
    /\ resp.cookies[2].maxAge = -1

\* C17 (as claimed): with the Handlers of two managers composed around one
\* handler, Get(r) of each manager returns, inside that handler, the session
\* this manager loaded and attached, never the one of the other manager.
C17_ManagerScopedKeys ==
    \A m \in Managers :
        (got[m] # NilSession /\ mine[m] # NilSession) => got[m] = mine[m]

\* C18 (as claimed): Get(r) never returns nil; for a request that passed
\* through the manager's Handler it returns the session that Handler
\* attached, the same object on every call; for a request that did not, it
\* returns a new session with a non-empty id, no values and both flags false.
C18_GetNeverNil ==
    [][\A m \in Managers :
          got'[m] # got[m] =>
              /\ got'[m] \in 1..Len(heap')
              /\ mine[m] # NilSession =>
                    (got[m] = NilSession /\ got'[m] = mine[m])
              /\ mine[m] = NilSession =>
                    /\ got'[m] = Len(heap) + 1
                    /\ heap'[got'[m]].id # ""
                    /\ heap'[got'[m]].values = EmptyValues
                    /\ ~heap'[got'[m]].isModified
                    /\ ~heap'[got'[m]].isDestroyed]_vars

\* C12 (as claimed): when the Store reports a non-empty token not found, the
\* session of the request has a newly generated id that differs from the
\* token, and the token is neither the key of a Store.Set nor the value of a
\* cookie written for the request.
C12_UnknownTokenNotReused ==
    (token # "" /\ \E i \in Indices(log, "StoreGet") : log[i].arg = "notfound") =>
        /\ sess.id # token
        /\ \A i \in Indices(log, "StoreSet") : log[i].id # token
        /\ \A k \in 1..Len(resp.cookies) : resp.cookies[k].value # token

\* C12 (amended): when the Store reports a non-empty token not found, Load
\* calls newSession once, the session of the request is the one it made (no
\* values, created now) and its id is the id generated in that call, whether
\* or not that id happens to be the string presented; every Store.Set,
\* Store.Delete and cookie of the request uses the generated id.
C12_UnknownTokenFreshId ==
    (token # "" /\ \E i \in Indices(log, "StoreGet") : log[i].arg = "notfound") =>
        /\ Cardinality(Indices(log, "newSession")) = 1
        /\ \A g \in Indices(log, "newSession") :
              /\ sess.id = log[g].id
              /\ sess.createdAt = now
              /\ \A i \in Indices(log, "StoreSet") \cup
                           Indices(log, "StoreDelete") : log[i].id = log[g].id
              /\ \A k \in 1..Len(resp.cookies) :
                    resp.cookies[k].value = log[g].id
        /\ ~store[token].present \/ token = sess.id

C12_Witness ==
    /\ pc = "done"
    /\ token # ""
    /\ \E i \in Indices(log, "StoreGet") : log[i].arg = "notfound"
    /\ sess.id # token
    /\ \E i \in Indices(log, "StoreSet") : log[i].arg = "ok"
    /\ Len(resp.cookies) = 1
    /\ store[sess.id].present

\* The bits of the random bytes that genUUIDv7 keeps: the low nibble of the
\* byte for uuid[6], the low seven bits of the byte for uuid[8], all others.
Kept(rnd) == [i \in 1..10 |-> IF i = 1 THEN rnd[i] % 16
                              ELSE IF i = 3 THEN rnd[i] % 128
                              ELSE rnd[i]]

\* C14 (as claimed): no identifier made for a fresh session is equal to one
\* made earlier.
C14_FreshIdsDiffer ==
    \A i, j \in 1..Len(issued) : i < j => issued[i].id # issued[j].id

\* C14 (amended): two fresh sessions have the same identifier exactly when
\* genUUIDv7 ran in the same millisecond and drew random bytes that agree
\* in every bit it keeps; otherwise their identifiers differ.
C14_FreshIdsDifferUnlessSameDraw ==
    \A i, j \in 1..Len(issued) :
        i < j =>
            (issued[i].id = issued[j].id
                <=> /\ issued[i].ms = issued[j].ms
                    /\ Kept(issued[i].rnd) = Kept(issued[j].rnd))

C14_Witness ==
    /\ Len(issued) = 2
    /\ issued[1].ms = issued[2].ms
    /\ issued[1].rnd # issued[2].rnd
    /\ Kept(issued[1].rnd) # Kept(issued[2].rnd)
    /\ issued[1].id # issued[2].id

\* Request j presents the cookie of request i and the Store returns what
\* request i stored: no request in between has stored, deleted or newly
\* created a session under that id, and the record has not expired.
Returns(i, j) ==
    /\ i < j
    /\ past[i].saved
    /\ past[j].token = past[i].id
    /\ ~past[j].fresh
    /\ \A k \in (i + 1)..(j - 1) :
          past[k].id = past[i].id =>
              (~past[k].saved /\ ~past[k].deleted /\ ~past[k].fresh)

\* C13: when the Save of a request has stored the session, the response
\* carries one Set-Cookie, whose value is the session id; and a later
\* request that presents this cookie, the Store returning what was stored,
\* runs its handler with a session of the same id whose Get returns, for
\* every key, the value the handler had set before that Save.
C13_RoundTrip ==
    /\ \A i \in 1..Len(past) :
          (past[i].saved /\ ~past[i].deleted) =>
              /\ Len(past[i].cookies) = 1
              /\ past[i].cookies[1].value = past[i].id
    /\ \A i, j \in 1..Len(past) :
          Returns(i, j) =>
              /\ past[j].id = past[i].id
              /\ past[j].loaded = past[i].atSave
              /\ \A k \in Keys :
                    SessionGet([NoSession EXCEPT !.values = past[j].loaded], k)
                    = SessionGet([NoSession EXCEPT !.values = past[i].atSave], k)

C13_Witness ==
    /\ Len(past) = 2
    /\ Returns(1, 2)
    /\ past[1].token = ""
    /\ DOMAIN past[1].atSave = {"k2"}
    /\ past[2].loaded = past[1].atSave

\* C16: the deadline of a session does not move: a request that presents
\* the token of a session created by an earlier request, the Store
\* returning the session, loads it with the createdAt it was created with,
\* and every Store.Set for it, in the creating request and in any later
\* one, has expiresAt = that createdAt + lifetime, whatever the time of the
\* request and whatever idleTimeout is.
C16_DeadlineFixed ==
    /\ \A i \in 1..Len(past) :
          (past[i].fresh /\ past[i].saved) =>
              /\ past[i].createdAt = past[i].at
              /\ past[i].expiresAt = past[i].at + lifetime
    /\ \A i, j \in 1..Len(past) :
          (past[i].fresh /\ Returns(i, j)) =>
              /\ past[j].createdAt = past[i].createdAt
              /\ past[j].saved =>
                    past[j].expiresAt = past[i].createdAt + lifetime

C16_Witness ==
    /\ Len(past) = 2
    /\ past[1].fresh
    /\ Returns(1, 2)
    /\ past[2].saved
    /\ past[2].at > past[1].at
    /\ idleTimeout > 0
    /\ past[2].expiresAt = past[1].at + lifetime

\* Both requests bore the same token, both loaded the stored session before
\* either saved, each set a key the other did not, and both Store.Set ran.
BothSaved ==
    /\ \A r \in Requests : /\ reqs[r].pc = "done"
                            /\ reqs[r].found
                            /\ reqs[r].seen = 0
                            /\ reqs[r].key # ""
    /\ reqs["r1"].token = reqs["r2"].token
    /\ reqs["r1"].key # reqs["r2"].key
    /\ Len(order) = 2

\* The values in the record the Store holds under the token of request r.
Stored(r) == Decode(store[reqs[r].token].data).values

\* C20 (as claimed): after two such requests the record of the token holds
\* the value map of the request whose Store.Set ran last, and the key the
\* other request set is absent from it.
C20_LastSaveWins ==
    BothSaved =>
        LET last == order[2]
            other == order[1]
        IN /\ store[reqs[last].token].present
           /\ Stored(last) = reqs[last].sess.values
           /\ reqs[other].key \notin DOMAIN Stored(last)

\* C20 (amended): after two such requests the record of the token holds the
\* value map of the request whose Store.Set ran last; what the other request
\* set is lost: its key has in the record the value it had in the session as
\* loaded, and is absent from it if it was absent then.
C20_LastSaveWinsUpdateLost ==
    BothSaved =>
        LET last == order[2]
            other == order[1]
            k == reqs[other].key
        IN /\ store[reqs[last].token].present
           /\ Stored(last) = reqs[last].sess.values
           /\ Stored(last) # reqs[other].sess.values
           /\ IF k \in DOMAIN reqs[last].loaded
              THEN /\ k \in DOMAIN Stored(last)
                   /\ Stored(last)[k] = reqs[last].loaded[k]
              ELSE k \notin DOMAIN Stored(last)

C20_Witness ==
    /\ BothSaved
    /\ order = <<"r1", "r2">>
    /\ reqs["r1"].key = "k2"
    /\ reqs["r2"].key = "k1"
    /\ "k2" \notin DOMAIN Stored("r2")

C22_MemstoreSemantics ==
    [][(answer' # <<>> /\ (answer' # answer \/ store' # store)) =>
        LET a == answer'[1] IN
        /\ ~a.err
        /\ \A id \in Ids \ {a.tok} : store'[id] = store[id]
        /\ a.op = "Get" =>
              /\ (written[a.tok].present /\ written[a.tok].expiresAt > now)
                    => (a.found /\ a.data = written[a.tok].data)
              /\ ~written[a.tok].present => ~a.found
              /\ a.found => store'[a.tok] = store[a.tok]
        /\ a.op = "Set" =>
              /\ store'[a.tok].present
              /\ store'[a.tok] = written'[a.tok]
        /\ a.op = "Delete" => ~store'[a.tok].present]_vars

\* Time has passed, a Get has removed the expired record of "b", and a Get
\* for "a", whose record was overwritten with an expiry still ahead, finds
\* the data of that last Set.
C22_Witness ==
    /\ now > ClockStart
    /\ answer # <<>>
    /\ answer[1] = [op |-> "Get", tok |-> "a", found |-> TRUE,
                    data |-> Encode(ClockStart, [k \in {"k1"} |-> 1]),
                    err |-> FALSE]
    /\ written["a"].expiresAt > now
    /\ written["b"].present /\ ~store["b"].present

\* C23: under any interleaving of Get, Set, Delete and deleteExpired, the
\* record a completed Set wrote with an expiresAt still ahead stays in the
\* Memstore as it was written, until a Delete of the token or until it
\* expires: the cleanup in Get and in deleteExpired never removes it.
C23_LiveRecordStays ==
    \A tok \in Ids :
        (written[tok].present /\ written[tok].expiresAt > now)
            => store[tok] = written[tok]

\* C24: on a tick PeriodicCleanUp visits every key, passes over no record
\* whose expiresAt has passed and deletes no record whose expiresAt is still
\* ahead; it returns only after the stop channel was signalled, and once it
\* has returned it does nothing more.
C24_PeriodicCleanUp ==
    [][/\ (cleaner.pc = "select" /\ cleaner'.pc = "range")
            => cleaner'.todo = Ids
       /\ (cleaner.pc = "range" /\ cleaner'.pc # "deleting")
            => \A tok \in cleaner.todo \ cleaner'.todo :
                  ~(store[tok].present /\ now > store[tok].expiresAt)
       /\ (cleaner.pc = "deleting" /\ cleaner'.pc # "deleting")
            => /\ ~store'[cleaner.key].present
               /\ store[cleaner.key].present
                    => now > store[cleaner.key].expiresAt
       /\ (cleaner.pc # "returned" /\ cleaner'.pc = "returned")
            => cleaner.stop
       /\ cleaner.pc = "returned" => cleaner' = cleaner]_vars

Expected(vs, k, type, zero) ==
    IF k \in DOMAIN vs /\ vs[k].type = type THEN vs[k].val ELSE zero

C27_EncodeErrorNoSet ==
    [][\A i \in Added :
          (log'[i].ev = "Encode" /\ log'[i].arg = "err") =>
              /\ sess.isModified /\ ~sess.isDestroyed
              /\ \E j \in Added :
                    /\ j > i
                    /\ log'[j] = Ev("SaveRet", log'[i].n, "err", sess.id)
              /\ \A j \in Added :
                    log'[j].ev \notin {"StoreSet", "StoreDelete", "SetCookie"}
              /\ store' = store
              /\ resp'.cookies = resp.cookies]_vars

\* The handler set a value and wrote; Encode failed in the only Save: the
\* response is complete without a cookie and nothing is stored for the id.
C27_Witness ==
    /\ pc = "done"
    /\ Cardinality(Saves) = 1
    /\ \E i \in Indices(log, "Encode") : log[i].arg = "err"
    /\ sess.values # EmptyValues
    /\ Writes # {}
    /\ resp.cookies = <<>>
    /\ ~store[sess.id].present

\* The request as it would be after the call that made the Save of this
\* step (Write, WriteHeader, or the return of the handler), had the Save
\* succeeded.
HadSaved(by, arg) ==
    IF by = "Write" THEN WrapperWrite(Cur, "ok")
    ELSE IF by = "Handler" THEN HandlerLeave(Cur, "ok")
    ELSE WrapperWriteHeader(Cur, CHOOSE code \in Codes : ToString(code) = arg,
                            "ok")

\* C28: when the Save made by the wrapper or by the middleware fails
\* (Store.Set, Store.Delete or Codec.Encode), the Write or WriteHeader that
\* triggered it is still passed to the underlying writer, the response has
\* the status and the body it would have had with a successful Save and
\* differs only in the cookie that is missing, and no second Save is made by
\* the wrapper or the middleware in the request.
C28_SaveFailureKeepsResponse ==
    [][\A i \in Added :
          (/\ log'[i].ev = "Save" /\ log'[i].arg # "direct"
           /\ \E j \in Added : log'[j].ev = "SaveRet" /\ log'[j].arg = "err")
          => LET by == log'[i].arg
                 last == log'[Len(log')]
                 ok == HadSaved(by, last.arg)
             IN /\ by \in {"Write", "WriteHeader"} =>
                      (last.ev = by /\ isWritten')
                /\ Len(ok.resp.cookies) = Len(resp.cookies) + 1
                /\ resp'.cookies = resp.cookies
                /\ resp'.status = ok.resp.status
                /\ resp'.body = ok.resp.body
                /\ resp'.vary = ok.resp.vary
                /\ resp'.sent = IF resp.status = 0 /\ resp'.status # 0
                                THEN resp.cookies ELSE resp.sent
                /\ pc' = ok.pc
                /\ OwnSaves = {}
                /\ \A j \in Added : log'[j].ev = "Save" => j = i]_vars

\* The handler destroyed the session and called WriteHeader(404); the
\* Store.Delete of the Save failed; the response went out with status 404
\* and no cookie, and the request is complete with that one Save.
C28_Witness ==
    /\ pc = "done"
    /\ Cardinality(Saves) = 1
    /\ \E i \in Indices(log, "StoreDelete") : log[i].arg = "err"
    /\ \E i \in Indices(log, "WriteHeader") : log[i].arg = "404"
    /\ resp.status = 404
    /\ resp.cookies = <<>>
    /\ resp.sent = <<>>

\* C30: the session handed to handler code, whether new, loaded, or returned
\* by Get outside the middleware, has a non-empty id; a loaded session has
\* the token of the cookie as its id; no step of the handler (Set, SetWeak,
\* Delete, Clear, Destroy, a write, Save) changes the id or the creation
\* time; every Save, Encode, Store.Set, Store.Delete and cookie of the
\* request carries that id, and no record under another id is touched.
C30_IdFixed ==
    [][/\ pc' \in {"handler", "done", "panicked", "outside"} => sess'.id # ""
       /\ (\E i \in Indices(log', "Decode") : log'[i].arg = "ok")
             => sess'.id = token'
       /\ pc = "handler" =>
             /\ sess'.id = sess.id
             /\ sess'.createdAt = sess.createdAt
             /\ \A id \in Ids \ {sess.id} : store'[id] = store[id]
       /\ \A i \in Added :
             log'[i].ev \in {"Save", "Encode", "StoreSet", "StoreDelete",
                             "SetCookie", "SaveRet"}
                => log'[i].id = sess'.id
       /\ \A k \in 1..Len(resp'.cookies) :
             resp'.cookies[k].value = sess'.id]_vars

\* A session loaded for token "a" was changed and saved: the Store.Set and
\* the cookie carry "a", and the creation time is the stored one.
C30_Witness ==
    /\ pc = "done"
    /\ token = "a"
    /\ \E i \in Indices(log, "Decode") : log[i].arg = "ok"
    /\ \E i \in Indices(log, "StoreSet") : log[i].arg = "ok" /\ log[i].id = "a"
    /\ sess.id = "a"
    /\ sess.createdAt < now
    /\ "k2" \in DOMAIN sess.values
    /\ Len(resp.cookies) = 1
    /\ resp.cookies[1].value = "a"

\* A call of Reload returns in this step.
Returning(r) == reloads[r].pc = "sending" /\ reloads'[r].pc = "idle"

\* C29 (as claimed): when Reload returns, every connection that was
\* subscribed when it started has been sent a second timestamp message.
C29_ReloadNotifiesAll ==
    [][\A r \in Reloaders :
          Returning(r) => \A c \in reloads[r].snap : conns'[c].events >= 2]_vars

\* C29 (amended): when Reload returns, every connection that was subscribed
\* when it started has taken the value this Reload sent on its channel; the
\* handler of a connection that has taken a value has sent one timestamp
\* message so far, and its next step sends the second one.
C29_ReloadSignalsAll ==
    [][/\ \A r \in Reloaders :
             Returning(r) =>
                \A c \in reloads[r].snap :
                    /\ r \in conns'[c].got
                    /\ conns'[c].pc \in {"second", "leaving", "gone"}
       /\ \A c \in Conns :
             /\ conns'[c].pc = "second" => conns'[c].events = 1
             /\ (conns'[c].got # {} /\ conns'[c].pc # "second")
                   => conns'[c].events = 2
             /\ (conns[c].pc = "second" /\ conns'[c].pc # "second")
                   => conns'[c].events = 2]_vars

\* Reload w1 has returned after sending to both connections; c1 has sent
\* its second timestamp, c2 has taken the value and has not sent it yet.
C29_Witness ==
    /\ reloads["w1"].pc = "idle"
    /\ reloads["w1"].snap = {"c1", "c2"}
    /\ conns["c1"].got = {"w1"} /\ conns["c1"].events = 2
    /\ conns["c2"].got = {"w1"} /\ conns["c2"].pc = "second"
    /\ conns["c2"].events = 1

WeakOnly(prog) ==
    prog # <<>> /\ \A n \in 1..Len(prog) : prog[n].op = "SetWeak"

\* The values after SetWeak(k, v) on the values vs.
Put(vs, k, v) == [x \in DOMAIN vs \cup {k} |-> IF x = k THEN v ELSE vs[x]]

\* C32: a request whose handler only called SetWeak has the value in the
\* session when Save runs and makes no Store.Set or Store.Delete; the next
\* request that presents its id gets what the Store held before (a new
\* session when nothing was stored under the id), not the SetWeak value;
\* and when a Save stores the session, a later request that is given what
\* was stored finds the whole map as it was at that Save, the SetWeak value
\* included.
C32_SetWeakNotPersisted ==
    /\ \A i \in 1..Len(past) :
          WeakOnly(past[i].prog) =>
              /\ past[i].atSave = Put(past[i].loaded, "k2", 2)
              /\ ~past[i].saved
              /\ ~past[i].deleted
    /\ \A i \in 1..Len(past) : \A j \in {i + 1} \cap (1..Len(past)) :
          (WeakOnly(past[i].prog) /\ past[j].token = past[i].id) =>
              /\ (~past[i].fresh /\ ~past[j].fresh)
                    => past[j].loaded = past[i].loaded
              /\ (past[i].fresh /\
                  \A k \in 1..(i - 1) : past[k].id # past[i].id)
                    => (past[j].fresh /\ past[j].loaded = EmptyValues)
    /\ \A i, j \in 1..Len(past) :
          (/\ Returns(i, j)
           /\ \E n \in 1..Len(past[i].prog) : past[i].prog[n].op = "SetWeak")
          => /\ past[j].loaded = past[i].atSave
             /\ "k2" \in DOMAIN past[j].loaded
             /\ past[j].loaded["k2"] = 2

\* The first request, without a cookie, only called SetWeak: the session had
\* the value at Save, nothing was stored, and the second request, which
\* presents the cookie of the first, gets a new session without it.
C32_Witness ==
    /\ Len(past) = 2
    /\ past[1].token = ""
    /\ WeakOnly(past[1].prog)
    /\ past[1].atSave = [k \in {"k2"} |-> 2]
    /\ Len(past[1].cookies) = 1
    /\ past[2].token = past[1].id
    /\ past[2].fresh
    /\ past[2].loaded = EmptyValues

\* C33: once the handler has written (Write or WriteHeader), the wrapper and
\* the middleware make no Save any more; a step in which the handler does
\* not call Save itself, the return of the handler included, makes no
\* Store.Set and no Store.Delete, leaves the Store as it is and adds no
\* cookie, even when the session was changed or destroyed after the write.
C33_NoSaveAfterWrite ==
    [][(isWritten /\ pc = "handler") =>
          /\ \A i \in Added : log'[i].ev = "Save" => log'[i].arg = "direct"
          /\ (\A i \in Added : log'[i].ev # "Save") =>
                /\ store' = store
                /\ resp'.cookies = resp.cookies
                /\ \A i \in Added :
                      log'[i].ev \notin {"Encode", "StoreSet", "StoreDelete",
                                         "SetCookie"}]_vars

\* The session loaded for "a" was destroyed after the first write: the
\* request is complete with its one Save, made at that write, the record is
\* still in the Store and the one cookie is the one of that Save.
C33_Witness ==
    /\ pc = "done"
    /\ token = "a"
    /\ isWritten
    /\ sess.isDestroyed
    /\ sess.id = "a"
    /\ store["a"].present
    /\ Cardinality(Saves) = 1
    /\ Indices(log, "StoreDelete") = {}
    /\ Len(resp.cookies) = 1
    /\ resp.cookies[1].maxAge > 0

\* Request j presents the cookie of request i, whose Save stored the
\* session with an idle timeout set, after the idle expiry of that Save and
\* before the deadline of the session; no request in between has stored,
\* deleted or newly created a session under that id.
AfterIdle(i, j) ==
    /\ i < j
    /\ past[i].saved
    /\ ~past[i].deleted
    /\ past[i].idle > 0
    /\ past[j].token = past[i].id
    /\ past[j].at > past[i].at + past[i].idle
    /\ past[j].at < past[i].createdAt + lifetime
    /\ \A k \in (i + 1)..(j - 1) :
          past[k].id = past[i].id =>
              (~past[k].saved /\ ~past[k].deleted /\ ~past[k].fresh)

\* C34: the server does not enforce the idle timeout: a request that
\* presents the token of a stored session after the idle expiry of the
\* previous Save and before createdAt + lifetime is served with the session
\* loaded from the Store, not a new one, with the id, the createdAt and the
\* values it was stored with.
C34_IdleNotEnforced ==
    \A i, j \in 1..Len(past) :
        AfterIdle(i, j) =>
            /\ ~past[j].fresh
            /\ past[j].id = past[i].id
            /\ past[j].createdAt = past[i].createdAt
            /\ past[j].loaded = past[i].atSave

C34_Witness ==
    /\ Len(past) = 2
    /\ AfterIdle(1, 2)
    /\ past[1].idle = 10 * 60
    /\ past[2].at - past[1].at > 10 * 60
    /\ ~past[2].fresh
    /\ past[2].createdAt = past[1].at
    /\ past[2].loaded = past[1].atSave
    /\ DOMAIN past[2].loaded = {"k1"}

\* The Save of request r has deleted the Store record of the token r
\* presented: r had loaded the stored session, its handler destroyed it and
\* the middleware has saved (Store.Delete returns no error here).
HasDeleted(r) ==
    /\ reqs[r].pc = "done"
    /\ reqs[r].found
    /\ reqs[r].sess.isDestroyed

\* C35: once the Save of a destroyed session has deleted the Store record
\* of a token, the Save of another request that is in flight with the
\* session it loaded for the same token makes no Store.Set for that token:
\* no record appears under it again.
C35_DestroyFinal ==
    [][\A r1, r2 \in Requests :
          (/\ r1 # r2
           /\ HasDeleted(r1)
           /\ reqs[r2].pc = "handler"
           /\ reqs[r2].found
           /\ reqs[r2].token = reqs[r1].token
           /\ reqs'[r2].pc = "done")
          => /\ order' = order
             /\ ~store'[reqs[r1].token].present]_vars

\* Reload r holds the read lock and is blocked in its send to a connection
\* whose handler has left the select and waits in unsubscribe for mu.Lock.
\* The handler cannot take the lock while r holds the read lock, and r
\* cannot finish its send, for the handler receives no more: from such a
\* state neither takes a step again.
Stuck(r) ==
    /\ reloads[r].pc = "sending"
    /\ r \in mu.readers
    /\ reloads[r].i <= Len(subscribers)
    /\ conns[subscribers[reloads[r].i]].pc = "leaving"
    /\ subscribers[reloads[r].i] \in mu.waiting

\* A Reload that is stuck stays stuck, whatever the other goroutines do.
StuckStays == [][\A r \in Reloaders : Stuck(r) => Stuck(r)']_vars

\* C36: Reload never deadlocks: under every interleaving of Reload calls
\* with clients connecting, receiving and disconnecting there is no state
\* in which a Reload call and the unsubscribe of a connection wait for each
\* other, so that the Reload never returns and the unsubscribe never
\* completes.
C36_ReloadNeverStuck == \A r \in Reloaders : ~Stuck(r)

\* The connections whose handler is between the return of subscribe and the
\* end of unsubscribe: their channel exists and is not closed.
Inside == {c \in Conns : conns[c].pc \in {"first", "select", "second", "leaving"}}

\* The channels in the subscriber list.
Listed == {subscribers[k] : k \in 1..Len(subscribers)}

\* The channel of connection c has been closed, by its unsubscribe.
Closed(c) == conns[c].pc = "gone"

\* C37: the subscriber list holds, once each, exactly the channels of the
\* connections inside handleClientConn; subscribe adds the channel of its
\* connection at the end, unsubscribe removes the channel of its connection
\* and no other and closes it; the channel a Reload is sending on, or is
\* about to send on, is never closed, and a closed channel is not closed
\* again.
C37_SubscriberList ==
    /\ [](/\ Listed = Inside
          /\ Cardinality(Listed) = Len(subscribers)
          /\ \A r \in Reloaders :
                (reloads[r].pc = "sending" /\ reloads[r].i <= Len(subscribers))
                => ~Closed(subscribers[reloads[r].i]))
    /\ [][\A c \in Conns :
            /\ (conns[c].pc = "locking" /\ conns'[c].pc = "first")
                  => subscribers' = Append(subscribers, c)
            /\ (~Closed(c) /\ Closed(c)')
                  => /\ conns[c].pc = "leaving"
                     /\ c \in Listed
                     /\ subscribers' = SelectSeq(subscribers, LAMBDA x : x # c)
                     /\ \A r \in Reloaders : reloads[r].pc = "idle"
            /\ Closed(c) => Closed(c)'
            /\ (conns'[c].pc = conns[c].pc \/ conns[c].pc \notin {"locking", "leaving"})
                  => (c \in Listed <=> c \in Listed')]_vars

\* Both clients have connected; the first has received a reload, written
\* its second message and unsubscribed: its channel is closed and only the
\* channel of the second is in the list, while a Reload is sending on it.
C37_Witness ==
    /\ Closed("c1")
    /\ conns["c1"].events = 2
    /\ subscribers = <<"c2">>
    /\ conns["c2"].pc = "select"
    /\ \E r \in Reloaders : reloads[r].pc = "sending" /\ reloads[r].i = 1

\* The Manager of goroutine n has been given its key.
Keyed(n) == mngrs[n].pc \in {"incr", "unlock", "done"}

\* C38: in the counter-based session.Manager no two Manager instances are
\* given the same key, whatever the interleaving of the NewManager calls,
\* and the package counter counts the Managers: it is the number of
\* Managers whose NewManager is past currentKey++, and it grows by one, and
\* only by one, in the step of a NewManager that is given the old value.
C38_UniqueKeys ==
    /\ [](/\ \A n1, n2 \in Makers :
                (n1 # n2 /\ Keyed(n1) /\ Keyed(n2))
                => mngrs[n1].key # mngrs[n2].key
          /\ currentKey
               = Cardinality({n \in Makers : mngrs[n].pc \in {"unlock", "done"}}))
    /\ [][/\ currentKey' \in {currentKey, currentKey + 1}
          /\ currentKey' = currentKey + 1
               => \E n \in Makers : /\ mngrs[n].pc = "incr"
                                    /\ mngrs'[n].pc = "unlock"
                                    /\ mngrs[n].key = currentKey
                                    /\ mngrs'[n].key = currentKey]_vars

\* The three calls of NewManager have returned, with the keys 0, 1 and 2,
\* taken in another order than the goroutines are named; the counter is 3.
C38_Witness ==
    /\ \A n \in Makers : mngrs[n].pc = "done"
    /\ {mngrs[n].key : n \in Makers} = {0, 1, 2}
    /\ mngrs["n3"].key = 0
    /\ mngrs["n1"].key = 2
    /\ currentKey = 3

\* The sixteen bytes of an identifier, read back from its string: two hex
\* digits each, the hyphens skipped.
HexValue(d) == CHOOSE v \in 0..15 : HexDigits[v + 1] = d

\* Where the bytes start in the string, for uuid[0] to uuid[15].
ByteAt ==
    <<1, 3, 5, 7, 10, 12, 15, 17, 20, 22, 25, 27, 29, 31, 33, 35>>

ByteOf(id, i) ==
    LET at == ByteAt[i + 1]
    IN 16 * HexValue(SubSeq(id, at, at)) + HexValue(SubSeq(id, at + 1, at + 1))

\* C39: every identifier genUUIDv7 makes has the UUIDv7 layout: 36
\* characters, hyphens at positions 8, 13, 18 and 23 (counted from 0), the
\* high nibble of byte 6 equal to 7, and the top two bits of byte 8 equal
\* to binary 10, whatever the random bytes were.
C39_UUIDv7Layout ==
    \A i \in 1..Len(issued) :
        LET id == issued[i].id IN
        /\ Len(id) = 36
        /\ \A p \in {8, 13, 18, 23} : SubSeq(id, p + 1, p + 1) = "-"
        /\ ByteOf(id, 6) \div 16 = 7
        /\ ByteOf(id, 8) \div 64 = 2

====
